---- MODULE Spec2Model ----
(***************************************************************************)
(* A model of the go-anymapper conversion engine (package anymapper):      *)
(* the Mapper of mapper.go with its type-pair cache and precedence chain,  *)
(* the providers of hook.go, the MappingInterfaceHooks, and the built-in   *)
(* rule table and structural routines of builtin.go.                       *)
(***************************************************************************)
EXTENDS Integers, Sequences, FiniteSets, TLC

(***************************************************************************)
(* Type descriptors (reflect.Type).  A descriptor is a sequence of         *)
(* strings: zero or more constructors ("ptr", "slice", "map" with string   *)
(* keys) followed by the name of a base type.                              *)
(***************************************************************************)
boolTy     == <<"bool">>
intTy      == <<"int">>
int8Ty     == <<"int8">>
uint8Ty    == <<"uint8">>
int16Ty    == <<"int16">>
uintTy     == <<"uint">>
float64Ty  == <<"float64">>
int64Ty    == <<"int64">>
stringTy   == <<"string">>
anyTy      == <<"any">>
timeTy     == <<"Time">>
bigIntTy   == <<"BigInt">>
bigFloatTy == <<"BigFloat">>
bigRatTy   == <<"BigRat">>
myIntTy    == <<"MyInt">>       \* type MyInt int
myBoolTy   == <<"MyBool">>      \* type myBool bool
myStringTy == <<"MyString">>    \* type myString string
customTy   == <<"Custom">>      \* customType: MapTo on the value, MapFrom on the pointer
s1Ty       == <<"S1">>          \* a plain struct type
s2Ty       == <<"S2">>          \* another plain struct type

srcTy      == <<"Src">>         \* struct { Foo int `map:"foo"`; Bar string `map:"bar"`;
                                \*          Baz int `map:"-"`; qaz int }
dstTy      == <<"Dst">>         \* struct { A int `map:"foo"`; B int `map:"bar"`; C int `map:"baz"` }
swapTy     == <<"Swap">>        \* struct { Foo int `map:"bar"`; Bar int `map:"foo"` }
plainTy    == <<"Plain">>       \* struct { Foo int; Bar string }
flagTy     == <<"Flag">>        \* struct { On myBool }
keyTy      == <<"Key">>         \* type Key string

PtrTo(t)   == <<"ptr">> \o t
SliceOf(t) == <<"slice">> \o t
MapOf(t)   == <<"map">> \o t

\* map[K]T for a key type K other than string (int, or the named string
\* type Key), and reflect.Type.Key.  The keys of every map value are written
\* as strings, an int key as its decimal digits.
MapOfKey(k, t) == <<IF k = <<"int">> THEN "mapInt" ELSE "mapKey">> \o t

KeyOf(t) ==
  CASE Head(t) = "mapInt" -> <<"int">>
    [] Head(t) = "mapKey" -> <<"Key">>
    [] OTHER              -> <<"string">>

\* The array types [1]T, [2]T and [8]T and reflect.Type.Len.
ArrayOf(n, t) ==
  <<CASE n = 1 -> "array1" [] n = 2 -> "array2" [] OTHER -> "array8">> \o t

ArrayLen(t) ==
  CASE Head(t) = "array1" -> 1 [] Head(t) = "array2" -> 2 [] OTHER -> 8

Elem(t) == Tail(t)

BaseKind(b) ==
  CASE b = "bool"    -> "Bool"
    [] b = "int"     -> "Int"
    [] b = "int8"    -> "Int8"
    [] b = "int64"   -> "Int64"
    [] b = "uint8"   -> "Uint8"
    [] b = "int16"   -> "Int16"
    [] b = "uint"    -> "Uint"
    [] b = "float64" -> "Float64"
    [] b = "string"  -> "String"
    [] b = "any"     -> "Interface"
    [] b = "MyInt"   -> "Int"
    [] b = "MyBool"  -> "Bool"
    [] b = "MyString" -> "String"
    [] b = "Key"     -> "String"
    [] b = "invalid" -> "Invalid"
    [] OTHER         -> "Struct"

Kind(t) ==
  CASE Head(t) = "ptr"   -> "Pointer"
    [] Head(t) = "slice" -> "Slice"
    [] Head(t) \in {"map", "mapInt", "mapKey"} -> "Map"
    [] Head(t) \in {"array1", "array2", "array8"} -> "Array"
    [] OTHER             -> BaseKind(Head(t))

\* reflect.StructField: the name, the value of the tag named by Mapper.Tag
\* (<< >> when the field has none), the type, and whether it is exported.
Fld(name, tag, ty, exported) ==
  [name |-> name, tag |-> tag, ty |-> ty, exported |-> exported]

\* reflect.Type.Field of the struct types.
StructFields(b) ==
  CASE b = "Src"   -> << Fld("Foo", <<"foo">>, intTy, TRUE),
                         Fld("Bar", <<"bar">>, stringTy, TRUE),
                         Fld("Baz", <<"-">>, intTy, TRUE),
                         Fld("qaz", << >>, intTy, FALSE) >>
    [] b = "Dst"   -> << Fld("A", <<"foo">>, intTy, TRUE),
                         Fld("B", <<"bar">>, intTy, TRUE),
                         Fld("C", <<"baz">>, intTy, TRUE) >>
    [] b = "Swap"  -> << Fld("Foo", <<"bar">>, intTy, TRUE),
                         Fld("Bar", <<"foo">>, intTy, TRUE) >>
    [] b = "Plain" -> << Fld("Foo", << >>, intTy, TRUE),
                         Fld("Bar", << >>, stringTy, TRUE) >>
    [] b = "Flag"  -> << Fld("On", << >>, myBoolTy, TRUE) >>
    [] OTHER       -> << >>

NumField(ty) == Len(StructFields(Head(ty)))
Field(ty, i) == StructFields(Head(ty))[i]

\* strings.ToLower on the names of the fields.
ToLower(name) ==
  CASE name = "Foo" -> "foo"
    [] name = "Bar" -> "bar"
    [] name = "Baz" -> "baz"
    [] name = "A"   -> "a"
    [] name = "B"   -> "b"
    [] name = "C"   -> "c"
    [] name = "On"  -> "on"
    [] OTHER        -> name

IntKinds   == {"Int", "Int8", "Int16", "Int32", "Int64"}
UintKinds  == {"Uint", "Uint8", "Uint16", "Uint32", "Uint64"}
FloatKinds == {"Float32", "Float64"}

\* The unnamed built-in types, one per scalar kind.
BuiltinScalars ==
  {"bool", "int", "int8", "int16", "int64", "uint", "uint8", "float64", "string"}

RECURSIVE isSimpleType(_)
isSimpleType(p) ==
  CASE Kind(p) \in {"Bool", "String"} \cup IntKinds \cup UintKinds \cup FloatKinds
         -> Head(p) \in BuiltinScalars
    [] Kind(p) = "Slice" -> isSimpleType(Elem(p))
    [] Kind(p) = "Array" -> isSimpleType(Elem(p))
    [] Kind(p) = "Map"   -> isSimpleType(Elem(p)) /\ isSimpleType(KeyOf(p))
    [] OTHER             -> FALSE


(***************************************************************************)
(* Providers of the default registry (hook.go).  A MapFunc is modelled by  *)
(* its name; "nil" is the nil MapFunc.                                     *)
(***************************************************************************)
timeTypeMapper(src, dst) ==
  IF src = dst THEN "mapDirect"
  ELSE IF src = timeTy THEN
    CASE Kind(dst) = "String" -> "mapTimeToString"
      [] Kind(dst) \in {"Int", "Int32", "Int64"} -> "mapTimeToInt"
      [] Kind(dst) \in {"Uint", "Uint32", "Uint64"} -> "mapTimeToUint"
      [] Kind(dst) \in FloatKinds -> "mapTimeToFloat"
      [] Kind(dst) = "Struct" /\ dst = bigIntTy -> "mapTimeToBigInt"
      [] Kind(dst) = "Struct" /\ dst = bigFloatTy -> "mapTimeToBigFloat"
      [] Kind(dst) \in {"Bool", "Int8", "Int16", "Uint8", "Uint16"} -> "nil"
      [] OTHER -> "mapFromTimeViaInt64"
  ELSE IF dst = timeTy THEN
    CASE Kind(src) = "String" -> "mapStringToTime"
      [] Kind(src) \in {"Int", "Int32", "Int64"} -> "mapIntToTime"
      [] Kind(src) \in {"Uint", "Uint32", "Uint64"} -> "mapUintToTime"
      [] Kind(src) \in FloatKinds -> "mapFloatToTime"
      [] Kind(src) = "Struct" /\ src = bigIntTy -> "mapBigIntToTime"
      [] Kind(src) = "Struct" /\ src = bigFloatTy -> "mapBigFloatToTime"
      [] Kind(src) \in {"Bool", "Int8", "Int16", "Uint8", "Uint16"} -> "nil"
      [] OTHER -> "mapToTimeViaInt64"
  ELSE "nil"

bigIntTypeMapper(src, dst) ==
  IF src = dst THEN "mapDirect"
  ELSE IF src = bigIntTy THEN
    CASE Kind(dst) = "Bool" -> "mapBigIntToBool"
      [] Kind(dst) \in IntKinds -> "mapBigIntToInt"
      [] Kind(dst) \in UintKinds -> "mapBigIntToUint"
      [] Kind(dst) \in FloatKinds -> "mapBigIntToFloat"
      [] Kind(dst) = "String" -> "mapBigIntToString"
      [] Kind(dst) = "Slice" /\ Kind(Elem(dst)) = "Uint8" -> "mapBigIntToBytes"
      [] Kind(dst) = "Struct" /\ dst = bigFloatTy -> "mapBigIntToBigFloat"
      [] OTHER -> "nil"
  ELSE IF dst = bigIntTy THEN
    CASE Kind(src) = "Bool" -> "mapBoolToBigInt"
      [] Kind(src) \in IntKinds -> "mapIntToBigInt"
      [] Kind(src) \in UintKinds -> "mapUintToBigInt"
      [] Kind(src) \in FloatKinds -> "mapFloatToBigInt"
      [] Kind(src) = "String" -> "mapStringToBigInt"
      [] Kind(src) = "Slice" /\ Kind(Elem(src)) = "Uint8" -> "mapBytesToBigInt"
      [] Kind(src) = "Struct" /\ src = bigFloatTy -> "mapBigFloatToBigInt"
      [] OTHER -> "nil"
  ELSE "nil"

bigRatTypeMapper(src, dst) ==
  IF src = bigRatTy /\ dst = bigRatTy THEN "mapDirect"
  ELSE IF src = bigRatTy THEN
    CASE Kind(dst) = "String" -> "mapBigRatToString"
      [] Kind(dst) \in {"Slice", "Array"} -> "mapBigRatToSliceOrArray"
      [] OTHER -> "mapFromBigRatViaBigFloat"
  ELSE IF dst = bigRatTy THEN
    CASE Kind(src) = "String" -> "mapStringToBigRat"
      [] Kind(src) \in {"Slice", "Array"} -> "mapSliceOrArrayToBigRat"
      [] OTHER -> "mapToBigRatViaBigFloat"
  ELSE "nil"

bigFloatTypeMapper(src, dst) ==
  IF src = dst THEN "mapDirect"
  ELSE IF src = bigFloatTy THEN
    CASE Kind(dst) = "Bool" -> "mapBigFloatToBool"
      [] Kind(dst) \in IntKinds -> "mapBigFloatToInt"
      [] Kind(dst) \in UintKinds -> "mapBigFloatToUint"
      [] Kind(dst) \in FloatKinds -> "mapBigFloatToFloat"
      [] Kind(dst) = "String" -> "mapBigFloatToString"
      [] Kind(dst) = "Struct" /\ dst = bigIntTy -> "mapBigFloatToBigInt"
      [] OTHER -> "nil"
  ELSE IF dst = bigFloatTy THEN
    CASE Kind(src) = "Bool" -> "mapBoolToBigFloat"
      [] Kind(src) \in IntKinds -> "mapIntToBigFloat"
      [] Kind(src) \in UintKinds -> "mapUintToBigFloat"
      [] Kind(src) \in FloatKinds -> "mapFloatToBigFloat"
      [] Kind(src) = "String" -> "mapStringToBigFloat"
      [] Kind(src) = "Struct" /\ src = bigIntTy -> "mapBigIntToBigFloat"
      [] OTHER -> "nil"
  ELSE "nil"

(***************************************************************************)
(* The built-in rule table (builtInTypesMapper), matching by kind.         *)
(***************************************************************************)
builtInTypesMapper(src, dst) ==
  LET ks == Kind(src)
      kd == Kind(dst)
      scalar(b, i, u, f, s) ==
        CASE kd = "Bool"       -> b
          [] kd \in IntKinds   -> i
          [] kd \in UintKinds  -> u
          [] kd \in FloatKinds -> f
          [] kd = "String"     -> s
          [] OTHER             -> "nil"
      bytes(fn) == IF Kind(Elem(dst)) = "Uint8" THEN fn ELSE "nil"
      number == IntKinds \cup UintKinds \cup FloatKinds
  IN
  CASE ks = "Bool" ->
         scalar("mapBoolToBool", "mapBoolToInt", "mapBoolToUint",
                "mapBoolToFloat", "mapBoolToString")
    [] ks \in IntKinds ->
         IF kd \in {"Slice", "Array"} THEN bytes("mapIntToByteSliceOrByteArray")
         ELSE scalar("mapIntToBool", "mapIntToInt", "mapIntToUint",
                     "mapIntToFloat", "mapIntToString")
    [] ks \in UintKinds ->
         IF kd \in {"Slice", "Array"} THEN bytes("mapUintToByteSliceOrByteArray")
         ELSE scalar("mapUintToBool", "mapUintToInt", "mapUintToUint",
                     "mapUintToFloat", "mapUintToString")
    [] ks \in FloatKinds ->
         IF kd \in {"Slice", "Array"} THEN bytes("mapFloatToByteSliceOrByteArray")
         ELSE scalar("mapFloatToBool", "mapFloatToInt", "mapFloatToUint",
                     "mapFloatToFloat", "mapFloatToString")
    [] ks = "String" ->
         IF kd = "Slice" THEN bytes("mapStringToByteSlice")
         ELSE IF kd = "Array" THEN bytes("mapStringToByteArray")
         ELSE scalar("mapStringToBool", "mapStringToInt", "mapStringToUint",
                     "mapStringToFloat", "mapStringToString")
    [] ks = "Slice" ->
         IF kd \in number THEN
                IF Kind(Elem(src)) = "Uint8" THEN "mapByteSliceToNumber" ELSE "nil"
         ELSE IF kd = "String" THEN
                IF Kind(Elem(src)) = "Uint8" THEN "mapByteSliceToString" ELSE "nil"
         ELSE IF kd = "Slice" THEN "mapSliceToSlice"
         ELSE IF kd = "Array" THEN "mapSliceToArray"
         ELSE "nil"
    [] ks = "Map" ->
         IF kd = "Map" THEN "mapMapToMap"
         ELSE IF kd = "Struct" THEN "mapMapToStruct"
         ELSE "nil"
    [] ks = "Struct" ->
         IF kd = "Struct" THEN
           IF src = dst THEN "mapStructsOfSameType" ELSE "mapStructsOfDifferentTypes"
         ELSE IF kd = "Map" THEN
           IF Kind(KeyOf(dst)) = "String" THEN "mapStructToMap" ELSE "nil"
         ELSE "nil"
    [] OTHER -> "nil"

(***************************************************************************)
(* MapTo / MapFrom (hook.go) and the method sets of the types under test.  *)
(***************************************************************************)
ValueMethods(b) == IF b = "Custom" THEN {"MapTo"} ELSE {}
PtrMethods(b)   == IF b = "Custom" THEN {"MapFrom"} ELSE {}

MethodSet(t) ==
  IF Len(t) = 1 THEN ValueMethods(t[1])
  ELSE IF Len(t) = 2 /\ t[1] = "ptr" THEN ValueMethods(t[2]) \cup PtrMethods(t[2])
  ELSE {}

implMapTo(t)   == "MapTo" \in MethodSet(t)
implMapFrom(t) == "MapFrom" \in MethodSet(t)

\* MappingInterfaceHooks.MapFuncHook
MappingInterfaceHook_FromFirst(src, dst) ==
  IF isSimpleType(src) /\ isSimpleType(dst) THEN "nil"
  ELSE IF implMapFrom(dst) THEN "mapFromInterface"
  ELSE IF implMapTo(src) THEN "mapToInterface"
  ELSE "nil"

MappingInterfaceHook(src, dst) ==
  IF isSimpleType(src) /\ isSimpleType(dst) THEN "nil"
  ELSE IF implMapTo(src) THEN "mapToInterface"
  ELSE IF implMapFrom(dst) THEN "mapFromInterface"
  ELSE "nil"


(***************************************************************************)
(* The Mapper and the threads that call Map / MapRefl on it.               *)
(***************************************************************************)
NumThreads == 2     \* threads calling Map on the one Mapper
MaxCalls   == 2     \* top-level Map calls started in a behaviour

VARIABLES
  StrictTypes,    \* Mapper.StrictTypes
  DisableCache,   \* Mapper.DisableCache
  Hooks,          \* which MapFuncHook is configured in Mapper.Hooks
  Mappers,        \* Mapper.Mappers: type -> name of its provider
  cacheMu,        \* Mapper.cacheMu: 0 when free, else the thread holding it
  cacheMap,       \* Mapper.cacheMap: type pair -> typeMapper
  stack,          \* per thread, the stack of conversions in progress
  calls,          \* history: per type pair, how often each step of the chain ran
  ret,            \* per thread, the last conversion that returned
  started,        \* number of top-level Map calls started
  mapSrc,         \* the source given to a Map call on values
  mapDst,         \* the destination given to it
  mapRes,         \* what the call did: error, destination afterwards, routines invoked
  mapPc,          \* "idle", "called" or "done"
  FieldMapper,    \* Mapper.FieldMapper: "nil" or the name of the function
  ByteOrder,      \* Mapper.ByteOrder: "BigEndian" or "LittleEndian"
  shared,         \* whether the destination holds the storage of the source
  mp,             \* the Mapper objects: the original "m" and, once made, its copy "cpy"
  heap,           \* the map objects the Mappers refer to, by address
  acted           \* the Mapper the last operation was called on, and how many there were

values == <<mapSrc, mapDst, mapRes, mapPc, FieldMapper, ByteOrder, shared, mp, heap, acted>>

vars == <<StrictTypes, DisableCache, Hooks, Mappers, cacheMu, cacheMap,
          stack, calls, ret, started, values>>

Threads == 1..NumThreads

\* The registry built by New().
DefaultMappers ==
  [t \in {timeTy, bigIntTy, bigFloatTy, bigRatTy} |->
     CASE t = timeTy     -> "timeTypeMapper"
       [] t = bigIntTy   -> "bigIntTypeMapper"
       [] t = bigFloatTy -> "bigFloatTypeMapper"
       [] OTHER          -> "bigRatTypeMapper"]

\* Calling a MapFuncProvider.
provider(name, src, dst) ==
  CASE name = "timeTypeMapper"     -> timeTypeMapper(src, dst)
    [] name = "bigIntTypeMapper"   -> bigIntTypeMapper(src, dst)
    [] name = "bigFloatTypeMapper" -> bigFloatTypeMapper(src, dst)
    [] name = "bigRatTypeMapper"   -> bigRatTypeMapper(src, dst)
    [] name = "userProvider"       -> "userMapFunc"
    [] OTHER                       -> "nil"

\* A caller's MapFuncHook that supplies its own MapFunc for int and time.Time sources.
userHook(src, dst) == IF src \in {intTy, timeTy} THEN "userMapFunc" ELSE "nil"

\* The conversion a re-entrant MapFuncHook runs on the Mapper it is given.
InnerPair == <<intTy, stringTy>>

\* The resolved type pairs the threads convert.
CallPairs ==
  { <<intTy, intTy>>, <<intTy, stringTy>>, <<boolTy, s1Ty>>,
    <<timeTy, boolTy>>, <<timeTy, anyTy>>, <<bigIntTy, bigRatTy>>,
    <<bigIntTy, s1Ty>>,
    <<customTy, PtrTo(customTy)>>, <<stringTy, PtrTo(customTy)>>,
    <<SliceOf(intTy), SliceOf(stringTy)>> }

AllPairs == CallPairs \cup {InnerPair}

HookKinds == {"none", "interfaces", "user", "reentrant"}

\* mapperFor, lines 906-911: the MapFunc the configured MapFuncHook returns.
hookFunc_AfterDirect(src, dst) ==
  IF src = dst /\ isSimpleType(src) THEN "nil"
  ELSE CASE Hooks = "interfaces" -> MappingInterfaceHook(src, dst)
         [] Hooks = "user"       -> userHook(src, dst)
         [] OTHER                -> "nil"

hookFunc(src, dst) ==
  CASE Hooks = "interfaces" -> MappingInterfaceHook(src, dst)
    [] Hooks = "user"       -> userHook(src, dst)
    [] OTHER                -> "nil"

Rule(fn, s, d, b) == [MapFunc |-> fn, srcProv |-> s, dstProv |-> d, builtIn |-> b]

\* mapperFor, lines 913-970: the rules after the hook.  The result names the
\* MapFunc and tells which providers and whether the built-in table were called.
resolveRules_SrcTerminal(src, dst) ==
  LET sameTypes    == src = dst
      isSrcSimple  == isSimpleType(src)
      hasSrcMapper == ~isSrcSimple /\ src \in DOMAIN Mappers
      srcFn        == provider(Mappers[src], src, dst)
      isDstSimple  == IF sameTypes THEN isSrcSimple ELSE isSimpleType(dst)
      hasDstMapper == ~sameTypes /\ ~isDstSimple /\ dst \in DOMAIN Mappers
      dstFn        == provider(Mappers[dst], src, dst)
  IN  IF sameTypes /\ isSrcSimple THEN Rule("mapDirect", FALSE, FALSE, FALSE)
      ELSE IF dst = anyTy THEN Rule("mapAny", FALSE, FALSE, FALSE)
      ELSE IF hasSrcMapper THEN Rule(srcFn, TRUE, FALSE, FALSE)
      ELSE IF hasDstMapper THEN Rule(dstFn, FALSE, TRUE, FALSE)
      ELSE Rule(builtInTypesMapper(src, dst), FALSE, FALSE, TRUE)

resolveRules_FallThrough(src, dst) ==
  LET sameTypes    == src = dst
      isSrcSimple  == isSimpleType(src)
      hasSrcMapper == ~isSrcSimple /\ src \in DOMAIN Mappers
      srcFn        == provider(Mappers[src], src, dst)
      isDstSimple  == IF sameTypes THEN isSrcSimple ELSE isSimpleType(dst)
      hasDstMapper == ~sameTypes /\ ~isDstSimple /\ dst \in DOMAIN Mappers
      dstFn        == provider(Mappers[dst], src, dst)
  IN  IF sameTypes /\ isSrcSimple THEN Rule("mapDirect", FALSE, FALSE, FALSE)
      ELSE IF dst = anyTy THEN Rule("mapAny", FALSE, FALSE, FALSE)
      ELSE IF hasSrcMapper /\ srcFn # "nil" THEN Rule(srcFn, TRUE, FALSE, FALSE)
      ELSE IF hasDstMapper /\ dstFn # "nil" THEN Rule(dstFn, hasSrcMapper, TRUE, FALSE)
      ELSE Rule(builtInTypesMapper(src, dst), hasSrcMapper, hasDstMapper, TRUE)

resolveRules(src, dst) ==
  LET sameTypes    == src = dst
      isSrcSimple  == isSimpleType(src)
      hasSrcMapper == ~isSrcSimple /\ src \in DOMAIN Mappers
      srcFn        == provider(Mappers[src], src, dst)
      isDstSimple  == IF sameTypes THEN isSrcSimple ELSE isSimpleType(dst)
      hasDstMapper == ~sameTypes /\ ~isDstSimple /\ dst \in DOMAIN Mappers
      dstFn        == provider(Mappers[dst], src, dst)
  IN  IF sameTypes /\ isSrcSimple THEN Rule("mapDirect", FALSE, FALSE, FALSE)
      ELSE IF dst = anyTy THEN Rule("mapAny", FALSE, FALSE, FALSE)
      ELSE IF hasSrcMapper /\ srcFn # "nil" THEN Rule(srcFn, TRUE, FALSE, FALSE)
      ELSE IF hasDstMapper /\ dstFn # "nil" THEN Rule(dstFn, hasSrcMapper, TRUE, FALSE)
      ELSE IF hasSrcMapper \/ hasDstMapper THEN Rule("nil", hasSrcMapper, hasDstMapper, FALSE)
      ELSE Rule(builtInTypesMapper(src, dst), FALSE, FALSE, TRUE)


(***************************************************************************)
(* Values (reflect.Value).  A value is a record [t, nil, val]: its type,   *)
(* whether it is a nil pointer, interface or slice, and its content: a     *)
(* boolean, an integer, a string as a sequence of characters, <<>> or      *)
(* <<pointee>> for a pointer, <<>> or <<dynamic value>> for an interface,  *)
(* the sequence of elements of a slice, the sequence of fields of a        *)
(* struct.  Whether a value can be set belongs to the handle by which it   *)
(* was reached and is passed along with it.                                *)
(***************************************************************************)
Invalid == [t |-> <<"invalid">>, nil |-> TRUE, val |-> << >>]   \* reflect.Value{}
IsValid(v) == v.t # <<"invalid">>

BoolV(b)        == [t |-> boolTy, nil |-> FALSE, val |-> b]
IntV(ty, n)     == [t |-> ty, nil |-> FALSE, val |-> n]
StrV(chars)     == [t |-> stringTy, nil |-> FALSE, val |-> chars]
FloatV(ty, n)   == [t |-> ty, nil |-> FALSE, val |-> n]     \* the float n.0
NilV(ty)        == [t |-> ty, nil |-> TRUE, val |-> << >>]
PtrV(v)         == [t |-> PtrTo(v.t), nil |-> FALSE, val |-> <<v>>]
AnyV(v)         == [t |-> anyTy, nil |-> FALSE, val |-> <<v>>]
SliceV(ty, els) == [t |-> SliceOf(ty), nil |-> FALSE, val |-> els]
TimeV(sec)      == [t |-> timeTy, nil |-> FALSE, val |-> sec]
Scalar(ty, x)   == [t |-> ty, nil |-> FALSE, val |-> x]     \* SetBool, SetString

\* The entries of a map with none, and map values: val is a function from
\* the keys (strings) to the values.
NoEntries == [k \in {} |-> Invalid]
MapV(ty, entries) == [t |-> MapOf(ty), nil |-> FALSE, val |-> entries]
NilMap(ty)        == [t |-> ty, nil |-> TRUE, val |-> NoEntries]

\* reflect.Zero of a type that is not a struct with fields.
ZeroOf(ty) ==
  CASE Kind(ty) = "Bool"   -> Scalar(ty, FALSE)
    [] Kind(ty) = "String" -> Scalar(ty, << >>)
    [] Kind(ty) = "Map"    -> NilMap(ty)
    [] Kind(ty) \in {"Pointer", "Interface", "Slice"} -> NilV(ty)
    [] Kind(ty) = "Array"  ->
         [t |-> ty, nil |-> FALSE,
          val |-> [i \in 1..ArrayLen(ty) |-> IntV(Elem(ty), 0)]]
    [] OTHER -> IntV(ty, 0)

\* reflect.Zero; the fields of the modelled structs are scalars.
Zero(ty) ==
  IF Kind(ty) = "Struct" /\ NumField(ty) > 0
    THEN [t |-> ty, nil |-> FALSE,
          val |-> [i \in 1..NumField(ty) |-> ZeroOf(Field(ty, i).ty)]]
    ELSE ZeroOf(ty)

\* A struct value: val is the sequence of the values of its fields.
StructV(ty, flds) == [t |-> ty, nil |-> FALSE, val |-> flds]

\* reflect.Value.MapIndex: the zero Value when the map has no such key.
MapIndex(m, key) ==
  IF ~m.nil /\ key \in DOMAIN m.val THEN m.val[key] ELSE Invalid

\* reflect.Value.SetMapIndex
SetMapIndex(m, key, v) ==
  [m EXCEPT !.val = [x \in (DOMAIN m.val) \cup {key} |->
                       IF x = key THEN v ELSE m.val[x]]]

\* reflect.Value.Elem of a pointer or an interface
ElemV(v) == IF v.nil THEN Invalid ELSE v.val[1]

\* srcValue, lines 981-987, with no SourceValueHook: isSimpleType is false of
\* every pointer and interface type, so the loop unwraps them all.
RECURSIVE srcValue(_)
srcValue(v) ==
  IF Kind(v.t) \in {"Pointer", "Interface"}
    THEN IF isSimpleType(v.t) THEN v ELSE srcValue(ElemV(v))
    ELSE v

\* initValue: a nil pointer, map or slice that can be set is allocated.
initValue(v, canSet) ==
  IF Kind(v.t) \notin {"Pointer", "Map", "Slice"} \/ ~v.nil \/ ~canSet THEN v
  ELSE IF Kind(v.t) = "Pointer" THEN [v EXCEPT !.nil = FALSE, !.val = <<Zero(Elem(v.t))>>]
  ELSE [v EXCEPT !.nil = FALSE]

\* A resolved destination: root is the destination as dstValue leaves it,
\* depth the number of Elem steps from it to the value dstValue returns
\* (-1 for the invalid value), set whether that value can be set.
Handle(root, depth, set) == [root |-> root, depth |-> depth, set |-> set]

\* dstValue, lines 1005-1028: the unwrapping loop.  dstPass is one pass over
\* the value v that initValue has left; dstInner takes what the rest of the
\* loop found inside v and falls back on the last settable value.
RECURSIVE dstLoop(_, _)
dstInner(v, canSet, in) ==
  IF in.depth >= 0 THEN Handle([v EXCEPT !.val = <<in.root>>], in.depth + 1, in.set)
  ELSE Handle([v EXCEPT !.val = <<in.root>>], IF canSet THEN 0 ELSE -1, canSet)

dstPass(v, canSet) ==
  IF canSet /\ isSimpleType(v.t) THEN Handle(v, 0, canSet)
  ELSE IF v.t \in DOMAIN Mappers THEN Handle(v, 0, canSet)
  ELSE IF Kind(v.t) = "Map" /\ ~v.nil THEN Handle(v, 0, canSet)
  ELSE IF Kind(v.t) \notin {"Interface", "Pointer"} \/ v.nil
    THEN Handle(v, IF canSet THEN 0 ELSE -1, canSet)
    ELSE dstInner(v, canSet, dstLoop(v.val[1], Kind(v.t) = "Pointer"))

dstLoop(v0, canSet) == dstPass(initValue(v0, canSet), canSet)

\* dstValue, with no DestinationValueHook.
dstValue(v, canSet) ==
  IF ~IsValid(v) THEN Handle(v, -1, FALSE)
  ELSE IF Kind(v.t) \notin {"Interface", "Pointer"} /\ canSet THEN Handle(v, 0, TRUE)
  ELSE dstLoop(v, canSet)

\* The value depth Elem steps inside root, and root with that value replaced.
RECURSIVE Target(_, _)
Target(root, depth) == IF depth = 0 THEN root ELSE Target(root.val[1], depth - 1)

RECURSIVE Put(_, _, _)
Put(root, depth, v) ==
  IF depth = 0 THEN v ELSE [root EXCEPT !.val = <<Put(root.val[1], depth - 1, v)>>]

(***************************************************************************)
(* Conversion routines on values (builtin.go, hook.go, mapper.go).  A      *)
(* routine returns [err, v, inv, nilSrc, failedAt]: the error it returns   *)
(* ("nil" for none, "panic" when it does not return but panics), the       *)
(* destination as it leaves it, the routines invoked, in order, and two    *)
(* history fields: whether srcValue returned the invalid value during the  *)
(* call, and the index of the element at which the outermost traversal     *)
(* stopped (0 when none did).                                              *)
(***************************************************************************)
Res(err, v, inv) ==
  [err |-> err, v |-> v, inv |-> inv, nilSrc |-> FALSE, failedAt |-> 0,
   reason |-> ""]

\* NewInvalidMappingError(src.Type(), dst.Type(), reason)
Invalidated(dst, reason) ==
  [Res("InvalidMappingErr", dst, << >>) EXCEPT !.reason = reason]

\* NewStrictMappingError(src.Type(), dst.Type())
Strict(dst) == Res("StrictMappingErr", dst, << >>)

\* The test that opens a routine (if ctx.StrictTypes); r is what the rest of
\* the routine does.
unlessStrict(dst, r) == IF StrictTypes THEN Strict(dst) ELSE r

\* reflect.Value.Set, SetInt, SetString, SetBool, SetLen: a panic on a value
\* that cannot be set.
SetV(old, canSet, new) ==
  IF canSet THEN Res("nil", new, << >>) ELSE Res("panic", old, << >>)

Digits == <<"0", "1", "2", "3", "4", "5", "6", "7", "8", "9">>
IsDigit(c) == \E d \in 1..10 : Digits[d] = c
DigitOf(c) == (CHOOSE d \in 1..10 : Digits[d] = c) - 1

\* strconv.FormatInt(n, 10)
RECURSIVE FormatUint(_)
FormatUint(n) ==
  IF n < 10 THEN <<Digits[n + 1]>>
  ELSE Append(FormatUint(n \div 10), Digits[(n % 10) + 1])

FormatInt(n) == IF n < 0 THEN <<"-">> \o FormatUint(-n) ELSE FormatUint(n)

\* strconv.ParseInt(s, 10, 64): an optional sign and one or more decimal digits.
RECURSIVE ParseDigits(_, _)
ParseDigits(s, acc) ==
  IF s = << >> THEN acc ELSE ParseDigits(Tail(s), acc * 10 + DigitOf(Head(s)))

ParseInt(s) ==
  LET signed == s # << >> /\ Head(s) \in {"+", "-"}
      body   == IF signed THEN Tail(s) ELSE s
  IN  IF body = << >> \/ \E i \in 1..Len(body) : ~IsDigit(body[i])
        THEN [ok |-> FALSE, n |-> 0]
        ELSE [ok |-> TRUE,
              n  |-> IF signed /\ Head(s) = "-" THEN -ParseDigits(body, 0)
                     ELSE ParseDigits(body, 0)]

\* reflect.Value.OverflowInt, by the width of the destination's kind; no
\* modelled integer leaves the range of the 64-bit kinds.
OverflowInt(ty, n) ==
  CASE Kind(ty) = "Int8"  -> n < -128 \/ n > 127
    [] Kind(ty) = "Int16" -> n < -32768 \/ n > 32767
    [] OTHER              -> FALSE

\* reflect.Value.OverflowUint, likewise.
OverflowUint(ty, n) ==
  CASE Kind(ty) = "Uint8"  -> n > 255
    [] Kind(ty) = "Uint16" -> n > 65535
    [] OTHER               -> FALSE

\* The width in bytes binary.Write gives a number: numberToBytes turns int
\* and uint into int64 and uint64 first.
Width(ty) ==
  CASE Kind(ty) \in {"Int8", "Uint8"}   -> 1
    [] Kind(ty) \in {"Int16", "Uint16"} -> 2
    [] Kind(ty) \in {"Int32", "Uint32"} -> 4
    [] OTHER                            -> 8

\* Byte i (0 the least significant) of the two's complement of n; every
\* modelled integer fits in three bytes and its sign.
ByteAt(n, i) ==
  IF i < 3 THEN ((n % 16777216) \div (256 ^ i)) % 256
  ELSE IF n < 0 THEN 255 ELSE 0

\* binary.Write(&buf, ctx.ByteOrder, n) for a number of width w.
Encode(n, w, order) ==
  [i \in 1..w |-> ByteAt(n, IF order = "BigEndian" THEN w - i ELSE i - 1)]

BytesV(ty, buf) ==
  [t |-> ty, nil |-> FALSE, val |-> [i \in 1..Len(buf) |-> IntV(Elem(ty), buf[i])]]

\* numberToBytes for an integer source.
numberToBytes_RejectNarrow(src, dst, canSet) ==
  IF Width(src.t) < 4 \/ Kind(Elem(dst.t)) # "Uint8" THEN Invalidated(dst, "")
  ELSE IF Kind(dst.t) = "Array" /\ Len(dst.val) # Width(src.t)
    THEN Invalidated(dst, "invalid array length")
  ELSE SetV(dst, canSet, BytesV(dst.t, Encode(src.val, Width(src.t), ByteOrder)))

numberToBytes(src, dst, canSet) ==
  IF Kind(dst.t) \notin {"Slice", "Array"} \/ Kind(Elem(dst.t)) # "Uint8"
    THEN Invalidated(dst, "")
  ELSE IF Kind(dst.t) = "Array" /\ Len(dst.val) # Width(src.t)
    THEN Invalidated(dst, "invalid array length")
  ELSE SetV(dst, canSet, BytesV(dst.t, Encode(src.val, Width(src.t), ByteOrder)))

\* mapperFor seen from its caller: the MapFunc of the typeMapper it returns.
mapFuncFor(src, dst) ==
  IF hookFunc(src, dst) # "nil" THEN hookFunc(src, dst)
  ELSE resolveRules(src, dst).MapFunc

RECURSIVE MapReflValues(_, _, _)
RECURSIVE mapValue(_, _, _)
RECURSIVE mapSliceElems(_, _, _)

\* The destination handle h after the routine that left r has run on its target.
Stored(h, r) == [r EXCEPT !.v = Put(h.root, h.depth, r.v)]

\* Mapper.Map and Mapper.MapRefl, lines 845-851, on what srcValue and
\* dstValue returned.
mapResolved(srcVal, h) ==
  IF ~IsValid(srcVal)
    THEN [Res("InvalidSrcErr", h.root, << >>) EXCEPT !.nilSrc = TRUE]
  ELSE IF h.depth < 0 THEN Res("InvalidDstErr", h.root, << >>)
  ELSE Stored(h, mapValue(srcVal, Target(h.root, h.depth), h.set))

\* Mapper.Map and Mapper.MapRefl on a source and a destination.
MapReflValues(src, dst, canSet) ==
  mapResolved(srcValue(src), dstValue(dst, canSet))

\* mapSliceToSlice, lines 545-547: r is what the routine did on element i;
\* an error ends the loop, otherwise the loop goes on with element i + 1.
mapSliceNext(src, dst, i, r, rest) ==
  IF r.err # "nil" THEN [r EXCEPT !.v = [dst EXCEPT ![i] = r.v], !.failedAt = i]
  ELSE [rest EXCEPT !.inv = r.inv \o rest.inv, !.nilSrc = r.nilSrc \/ rest.nilSrc]

mapSliceStep(src, dst, i, r) ==
  mapSliceNext(src, dst, i, r, mapSliceElems(src, [dst EXCEPT ![i] = r.v], i + 1))

\* mapSliceToSlice, lines 538-544: the pass over element i.  The types of
\* srcVal and dstVal are read with no validity check: Value.Type of the zero
\* Value panics.
mapSliceElem(src, dst, i, srcVal, h) ==
  IF ~IsValid(srcVal) \/ h.depth < 0
    THEN [Res("panic", [dst EXCEPT ![i] = h.root], << >>)
            EXCEPT !.nilSrc = ~IsValid(srcVal), !.failedAt = i]
    ELSE mapSliceStep(src, dst, i,
                      Stored(h, mapValue(srcVal, Target(h.root, h.depth), h.set)))

\* mapSliceToSlice, the loop of lines 537-549 from index i on.
mapSliceElems(src, dst, i) ==
  IF i > Len(src) THEN Res("nil", dst, << >>)
  ELSE mapSliceElem(src, dst, i, srcValue(src[i]), dstValue(dst[i], TRUE))

\* A variant of grown that resets to the zero value every element of the
\* destination that has no element of the source at its index.
grown_Reset(src, dst) ==
  [i \in 1..(IF Len(src.val) > Len(dst.val) THEN Len(src.val) ELSE Len(dst.val))
     |-> IF i <= Len(src.val) /\ i <= Len(dst.val) THEN dst.val[i]
         ELSE Zero(Elem(dst.t))]

\* mapSliceToSlice, lines 527-536: the destination's elements once it has
\* been grown to the length of the source.
grown(src, dst) ==
  IF Len(src.val) > Len(dst.val)
    THEN dst.val \o [i \in 1..(Len(src.val) - Len(dst.val)) |-> Zero(Elem(dst.t))]
    ELSE dst.val

sliceStored(dst, grow, r) ==
  [r EXCEPT !.v = [dst EXCEPT !.val = r.v, !.nil = dst.nil /\ ~grow]]

mapSliceToSlice(src, dst, canSet) ==
  IF StrictTypes /\ src.t # dst.t THEN Strict(dst)
  ELSE IF src.t = dst.t /\ canSet THEN Res("nil", src, << >>)
  ELSE IF Len(src.val) > Len(dst.val) /\ ~canSet THEN Res("panic", dst, << >>)
  ELSE sliceStored(dst, Len(src.val) > Len(dst.val),
                   mapSliceElems(src.val, grown(src, dst), 1))

\* parseTag: the external name of a field and whether the field is skipped.
parseTag(f) ==
  IF f.tag = << >>
    THEN [name |-> IF FieldMapper # "nil" THEN ToLower(f.name) ELSE f.name,
          skip |-> FALSE]
  ELSE IF f.tag[1] = "-" THEN [name |-> "", skip |-> TRUE]
  ELSE [name |-> f.tag[1], skip |-> FALSE]

\* A variant of Mapped that keeps the fields tagged "-".
Mapped_WithSkipped(ty) ==
  SelectSeq([i \in 1..NumField(ty) |-> i], LAMBDA i : Field(ty, i).exported)

\* The indexes of the fields of a struct type that a routine does not pass
\* over: exported and not tagged "-".
Mapped(ty) ==
  SelectSeq([i \in 1..NumField(ty) |-> i],
            LAMBDA i : Field(ty, i).exported /\ ~parseTag(Field(ty, i)).skip)

ExtName(ty, i) == parseTag(Field(ty, i)).name

\* The loop over the fields of a destination struct.  plan lists, in order,
\* the fields the routine reaches and the value it reads for each; flds are
\* the fields of the destination; lenient says that a source without a value
\* is passed over (mapMapToStruct) instead of having its type read.
RECURSIVE mapFields(_, _, _, _, _)

mapFieldNext(flds, idx, r, rest) ==
  IF r.err # "nil" THEN [r EXCEPT !.v = [flds EXCEPT ![idx] = r.v], !.failedAt = idx]
  ELSE [rest EXCEPT !.inv = r.inv \o rest.inv, !.nilSrc = r.nilSrc \/ rest.nilSrc]

mapFieldStep(plan, flds, k, lenient, canSet, r) ==
  mapFieldNext(flds, plan[k].idx, r,
               mapFields(plan, [flds EXCEPT ![plan[k].idx] = r.v], k + 1, lenient, canSet))

mapFieldSkipped(raw, rest) ==
  [rest EXCEPT !.nilSrc = IsValid(raw) \/ rest.nilSrc]

mapField(plan, flds, k, lenient, canSet, srcVal, h) ==
  IF ~IsValid(srcVal) /\ lenient
    THEN mapFieldSkipped(plan[k].src, mapFields(plan, flds, k + 1, lenient, canSet))
  ELSE IF ~IsValid(srcVal) \/ h.depth < 0
    THEN [Res("panic", [flds EXCEPT ![plan[k].idx] = h.root], << >>)
            EXCEPT !.nilSrc = ~IsValid(srcVal), !.failedAt = plan[k].idx]
  ELSE mapFieldStep(plan, flds, k, lenient, canSet,
                    Stored(h, mapValue(srcVal, Target(h.root, h.depth), h.set)))

mapFields(plan, flds, k, lenient, canSet) ==
  IF k > Len(plan) THEN Res("nil", flds, << >>)
  ELSE mapField(plan, flds, k, lenient, canSet,
                srcValue(plan[k].src), dstValue(flds[plan[k].idx], canSet))

structStored(dst, r) == [r EXCEPT !.v = [dst EXCEPT !.val = r.v]]

\* A variant of planOfMap that reads the zero value for a field whose name
\* the source map does not have.
planOfMap_Zeroing(src, ty) ==
  [k \in 1..Len(Mapped(ty)) |->
     [src |-> IF IsValid(MapIndex(src, ExtName(ty, Mapped(ty)[k])))
                THEN MapIndex(src, ExtName(ty, Mapped(ty)[k]))
                ELSE Zero(Field(ty, Mapped(ty)[k]).ty),
      idx |-> Mapped(ty)[k]]]

\* mapMapToStruct: every field of the destination that is not passed over
\* reads the entry of the source map under its external name.
planOfMap(src, ty) ==
  [k \in 1..Len(Mapped(ty)) |->
     [src |-> MapIndex(src, ExtName(ty, Mapped(ty)[k])), idx |-> Mapped(ty)[k]]]

\* reflect.Value.MapIndex and SetMapIndex with the key reflect.ValueOf(tag),
\* a string: a panic unless string is assignable to the key type of the map.
KeyPanics(mapTy, structTy) ==
  KeyOf(mapTy) # <<"string">> /\ Len(Mapped(structTy)) > 0

mapMapToStruct(src, dst, canSet) ==
  IF KeyPanics(src.t, dst.t) THEN Res("panic", dst, << >>)
  ELSE structStored(dst, mapFields(planOfMap(src, dst.t), dst.val, 1, TRUE, canSet))

\* mapStructsOfSameType: field i of the source goes to field i of the
\* destination.
planOfSame(src) ==
  [k \in 1..Len(Mapped(src.t)) |->
     [src |-> src.val[Mapped(src.t)[k]], idx |-> Mapped(src.t)[k]]]

mapStructsOfSameType(src, dst, canSet) ==
  structStored(dst, mapFields(planOfSame(src), dst.val, 1, FALSE, canSet))

\* mapStructsOfDifferentTypes: valMap holds, under each external name, the
\* last field of the source of that name; the fields of the destination whose
\* name valMap does not have are passed over.
Named(ty, name) == SelectSeq(Mapped(ty), LAMBDA i : ExtName(ty, i) = name)

valMap(src, name) == src.val[Named(src.t, name)[Len(Named(src.t, name))]]

Matched(srcT, dstT) ==
  SelectSeq(Mapped(dstT), LAMBDA i : Named(srcT, ExtName(dstT, i)) # << >>)

planOfDifferent(src, ty) ==
  [k \in 1..Len(Matched(src.t, ty)) |->
     [src |-> valMap(src, ExtName(ty, Matched(src.t, ty)[k])),
      idx |-> Matched(src.t, ty)[k]]]

mapStructsOfDifferentTypes(src, dst, canSet) ==
  structStored(dst, mapFields(planOfDifferent(src, dst.t), dst.val, 1, FALSE, canSet))

\* mapStructToMap: the loop over the fields of the source from the k-th on;
\* dst is the destination map.  An entry the map has and dstValue can write
\* through is converted in place; otherwise a new value of the element type
\* is converted and stored with SetMapIndex, which panics on a nil map.
RECURSIVE mapEntries(_, _, _)

mapEntryRest(r, rest) ==
  [rest EXCEPT !.inv = r.inv \o rest.inv, !.nilSrc = r.nilSrc \/ rest.nilSrc]

mapEntryStep(plan, dst, k, inPlace, r) ==
  IF r.err # "nil"
    THEN [r EXCEPT !.v = IF inPlace THEN SetMapIndex(dst, plan[k].key, r.v) ELSE dst,
                   !.failedAt = k]
  ELSE IF ~inPlace /\ dst.nil THEN [r EXCEPT !.err = "panic", !.v = dst, !.failedAt = k]
  ELSE mapEntryRest(r, mapEntries(plan, SetMapIndex(dst, plan[k].key, r.v), k + 1))

mapEntryInto(plan, dst, k, inPlace, srcVal, h) ==
  IF ~IsValid(srcVal) \/ h.depth < 0
    THEN [Res("panic", dst, << >>) EXCEPT !.nilSrc = ~IsValid(srcVal), !.failedAt = k]
    ELSE mapEntryStep(plan, dst, k, inPlace,
                      Stored(h, mapValue(srcVal, Target(h.root, h.depth), h.set)))

mapEntry(plan, dst, k, srcVal, h, fresh) ==
  mapEntryInto(plan, dst, k, h.depth >= 0, srcVal, IF h.depth >= 0 THEN h ELSE fresh)

mapEntries(plan, dst, k) ==
  IF k > Len(plan) THEN Res("nil", dst, << >>)
  ELSE mapEntry(plan, dst, k, srcValue(plan[k].src),
                dstValue(MapIndex(dst, plan[k].key), FALSE),
                dstValue(Zero(Elem(dst.t)), TRUE))

\* A variant of planOfStruct that keys every entry by the name of the field,
\* whatever its tag and FieldMapper say.
planOfStruct_ByFieldName(src) ==
  [k \in 1..Len(Mapped(src.t)) |->
     [src |-> src.val[Mapped(src.t)[k]], key |-> Field(src.t, Mapped(src.t)[k]).name]]

planOfStruct(src) ==
  [k \in 1..Len(Mapped(src.t)) |->
     [src |-> src.val[Mapped(src.t)[k]], key |-> ExtName(src.t, Mapped(src.t)[k])]]

mapStructToMap(src, dst, canSet) ==
  IF KeyPanics(dst.t, src.t) THEN Res("panic", dst, << >>)
  ELSE mapEntries(planOfStruct(src), dst, 1)

\* mapAny, lines 1121-1125, and mapToTimeViaInt64, lines 1154-1158: r is what
\* MapRefl did on the auxiliary pointer aux; set is dst.Set of new.
viaAux(dst, canSet, r, new) ==
  IF r.err = "panic" THEN [r EXCEPT !.v = dst]
  ELSE IF r.err # "nil" THEN [r EXCEPT !.err = "InvalidMappingErr", !.v = dst]
  ELSE IF canSet THEN [r EXCEPT !.v = new]
  ELSE [r EXCEPT !.err = "panic", !.v = dst]

anyOf(r) == IF r.err = "nil" THEN AnyV(r.v.val[1]) ELSE Invalid
timeOf(r) == IF r.err = "nil" THEN TimeV(r.v.val[1].val) ELSE Invalid

mapAnyAux(dst, canSet, r) == viaAux(dst, canSet, r, anyOf(r))

mapAny(src, dst, canSet) ==
  IF ~dst.nil
    THEN mapAnyAux(dst, canSet, MapReflValues(src, PtrV(Zero(dst.val[1].t)), FALSE))
    ELSE SetV(dst, canSet, AnyV(src))

mapToTimeAux(dst, canSet, r) == viaAux(dst, canSet, r, timeOf(r))

mapToTimeViaInt64(src, dst, canSet) ==
  IF StrictTypes THEN Res("StrictMappingErr", dst, << >>)
  ELSE mapToTimeAux(dst, canSet, MapReflValues(src, PtrV(IntV(int64Ty, 0)), FALSE))

mapStringToInt(src, dst, canSet) ==
  LET p == ParseInt(src.val)
  IN  IF StrictTypes THEN Strict(dst)
      ELSE IF ~p.ok THEN Res("InvalidMappingErr", dst, << >>)
      ELSE IF OverflowInt(dst.t, p.n) THEN Invalidated(dst, "overflow")
      ELSE SetV(dst, canSet, IntV(dst.t, p.n))

\* A variant of mapIntToInt that stores the low bits of the source, as a Go
\* conversion between integer types does, with no overflow check.
mapIntToInt_Wrapping(src, dst, canSet) ==
  SetV(dst, canSet,
       IntV(dst.t, IF Kind(dst.t) = "Int8" THEN ((src.val + 128) % 256) - 128
                   ELSE IF Kind(dst.t) = "Int16"
                     THEN ((src.val + 32768) % 65536) - 32768
                   ELSE src.val))

mapIntToInt(src, dst, canSet) ==
  IF StrictTypes /\ src.t # dst.t THEN Strict(dst)
  ELSE IF OverflowInt(dst.t, src.val) THEN Invalidated(dst, "overflow")
  ELSE SetV(dst, canSet, IntV(dst.t, src.val))

mapIntToUint(src, dst, canSet) ==
  IF StrictTypes THEN Strict(dst)
  ELSE IF src.val < 0 THEN Invalidated(dst, "negative value")
  ELSE IF OverflowUint(dst.t, src.val) THEN Invalidated(dst, "overflow")
  ELSE SetV(dst, canSet, IntV(dst.t, src.val))

\* The first test of the routine, src.Uint() > math.MaxInt64, is false of
\* every modelled unsigned value.
mapUintToInt(src, dst, canSet) ==
  IF StrictTypes THEN Strict(dst)
  ELSE IF OverflowInt(dst.t, src.val) THEN Invalidated(dst, "overflow")
  ELSE SetV(dst, canSet, IntV(dst.t, src.val))

mapUintToUint(src, dst, canSet) ==
  IF StrictTypes /\ src.t # dst.t THEN Strict(dst)
  ELSE IF OverflowUint(dst.t, src.val) THEN Invalidated(dst, "overflow")
  ELSE SetV(dst, canSet, IntV(dst.t, src.val))

\* strconv.ParseUint(s, 10, 64): one or more decimal digits, no sign.
mapStringToUint(src, dst, canSet) ==
  LET p == ParseInt(src.val)
  IN  IF StrictTypes THEN Strict(dst)
      ELSE IF ~p.ok \/ Head(src.val) \in {"+", "-"}
        THEN Res("InvalidMappingErr", dst, << >>)
      ELSE IF OverflowUint(dst.t, p.n) THEN Invalidated(dst, "overflow")
      ELSE SetV(dst, canSet, IntV(dst.t, p.n))

\* strconv.ParseFloat(s, 64) on the strings converted: decimal digits with
\* an optional sign give that number, a string with no digit is refused.
mapStringToFloat(src, dst, canSet) ==
  LET p == ParseInt(src.val)
  IN  IF StrictTypes THEN Strict(dst)
      ELSE IF ~p.ok THEN Res("InvalidMappingErr", dst, << >>)
      ELSE SetV(dst, canSet, FloatV(dst.t, p.n))

mapStringToBool(src, dst, canSet) ==
  CASE StrictTypes -> Strict(dst)
    [] src.val = <<"t", "r", "u", "e">>      -> SetV(dst, canSet, Scalar(dst.t, TRUE))
    [] src.val = <<"f", "a", "l", "s", "e">> -> SetV(dst, canSet, Scalar(dst.t, FALSE))
    [] OTHER -> Res("InvalidMappingErr", dst, << >>)

\* time.Parse(time.RFC3339, s) fails on every string shorter than a date.
mapStringToTime(src, dst, canSet) ==
  IF StrictTypes THEN Res("StrictMappingErr", dst, << >>)
  ELSE IF Len(src.val) < 20 THEN Res("InvalidMappingErr", dst, << >>)
  ELSE Res("unmodelled", dst, << >>)

mapIntToTime(src, dst, canSet) ==
  IF StrictTypes THEN Res("StrictMappingErr", dst, << >>)
  ELSE SetV(dst, canSet, TimeV(src.val))

\* The routine fn has been invoked and has left r.
invoked(fn, r) == [r EXCEPT !.inv = <<fn>> \o r.inv]

\* typeMapper.mapRefl: the nil MapFunc is an InvalidMappingErr, any other is
\* invoked.
mapRefl(fn, src, dst, canSet) ==
  IF fn = "nil" THEN Res("InvalidMappingErr", dst, << >>)
  ELSE invoked(fn,
         CASE fn = "mapDirect"         -> SetV(dst, canSet, src)
           [] fn = "mapAny"            -> mapAny(src, dst, canSet)
           [] fn = "mapBoolToBool"     ->
                unlessStrict(dst, SetV(dst, canSet, Scalar(dst.t, src.val)))
           [] fn = "mapBoolToInt"      ->
                unlessStrict(dst, SetV(dst, canSet, IntV(dst.t, IF src.val THEN 1 ELSE 0)))
           [] fn = "mapBoolToUint"     ->
                unlessStrict(dst, SetV(dst, canSet, IntV(dst.t, IF src.val THEN 1 ELSE 0)))
           [] fn = "mapBoolToFloat"    ->
                unlessStrict(dst, SetV(dst, canSet, FloatV(dst.t, IF src.val THEN 1 ELSE 0)))
           [] fn = "mapBoolToString"   ->
                unlessStrict(dst, SetV(dst, canSet,
                                       Scalar(dst.t, IF src.val THEN <<"t", "r", "u", "e">>
                                                     ELSE <<"f", "a", "l", "s", "e">>)))
           [] fn = "mapIntToBool"      ->
                unlessStrict(dst, SetV(dst, canSet, Scalar(dst.t, src.val # 0)))
           [] fn = "mapIntToInt"       -> mapIntToInt(src, dst, canSet)
           [] fn = "mapIntToUint"      -> mapIntToUint(src, dst, canSet)
           [] fn = "mapIntToFloat"     ->
                unlessStrict(dst, SetV(dst, canSet, FloatV(dst.t, src.val)))
           [] fn = "mapIntToString"    ->
                unlessStrict(dst, SetV(dst, canSet, Scalar(dst.t, FormatInt(src.val))))
           [] fn = "mapIntToByteSliceOrByteArray" ->
                unlessStrict(dst, numberToBytes(src, dst, canSet))
           [] fn = "mapUintToByteSliceOrByteArray" ->
                unlessStrict(dst, numberToBytes(src, dst, canSet))
           [] fn = "mapUintToBool"     ->
                unlessStrict(dst, SetV(dst, canSet, Scalar(dst.t, src.val # 0)))
           [] fn = "mapUintToInt"      -> mapUintToInt(src, dst, canSet)
           [] fn = "mapUintToUint"     -> mapUintToUint(src, dst, canSet)
           [] fn = "mapUintToFloat"    ->
                unlessStrict(dst, SetV(dst, canSet, FloatV(dst.t, src.val)))
           [] fn = "mapUintToString"   ->
                unlessStrict(dst, SetV(dst, canSet, Scalar(dst.t, FormatUint(src.val))))
           [] fn = "mapStringToBool"   -> mapStringToBool(src, dst, canSet)
           [] fn = "mapStringToInt"    -> mapStringToInt(src, dst, canSet)
           [] fn = "mapStringToUint"   -> mapStringToUint(src, dst, canSet)
           [] fn = "mapStringToFloat"  -> mapStringToFloat(src, dst, canSet)
           [] fn = "mapStringToString" ->
                unlessStrict(dst, SetV(dst, canSet, Scalar(dst.t, src.val)))
           [] fn = "mapSliceToSlice"   -> mapSliceToSlice(src, dst, canSet)
           [] fn = "mapMapToStruct"    -> mapMapToStruct(src, dst, canSet)
           [] fn = "mapStructToMap"    -> mapStructToMap(src, dst, canSet)
           [] fn = "mapStructsOfSameType" -> mapStructsOfSameType(src, dst, canSet)
           [] fn = "mapStructsOfDifferentTypes" ->
                mapStructsOfDifferentTypes(src, dst, canSet)
           [] fn = "mapIntToTime"      -> mapIntToTime(src, dst, canSet)
           [] fn = "mapUintToTime"     -> mapIntToTime(src, dst, canSet)
           [] fn = "mapStringToTime"   -> mapStringToTime(src, dst, canSet)
           [] fn = "mapToTimeViaInt64" -> mapToTimeViaInt64(src, dst, canSet)
           [] OTHER                    -> Res("unmodelled", dst, << >>))

\* m.mapperFor(srcVal.Type(), dstVal.Type()).mapRefl(m, srcVal, dstVal)
mapValue(srcVal, dstVal, canSet) ==
  mapRefl(mapFuncFor(srcVal.t, dstVal.t), srcVal, dstVal, canSet)

(***************************************************************************)
(* Conversions in progress.  A frame is one execution of                   *)
(*   m.mapperFor(src, dst).mapRefl(m, srcVal, dstVal)                      *)
(* on resolved, valid values; pc is the position inside it.                *)
(***************************************************************************)
Frame(p) == [src |-> p[1], dst |-> p[2], fn |-> "nil",
             pc |-> IF DisableCache THEN "hook" ELSE "lock"]

Top(t)      == stack[t][Len(stack[t])]
Running(t)  == stack[t] # <<>>
At(t, pc)   == Running(t) /\ Top(t).pc = pc
SetTop(t, f)  == [stack EXCEPT ![t] = [@ EXCEPT ![Len(@)] = f]]
PushOn(st, t, f) == [st EXCEPT ![t] = Append(@, f)]
Pop(t)      == [stack EXCEPT ![t] = SubSeq(@, 1, Len(@) - 1)]
PairOf(f)   == <<f.src, f.dst>>

NoCalls == [hook |-> 0, srcProv |-> 0, dstProv |-> 0, builtIn |-> 0,
            returned |-> 0, unsupported |-> 0]

(***************************************************************************)
(* Mapper objects.  A Mapper is the record of its fields; the fields       *)
(* Mappers and cacheMap are Go maps, that is references: they hold the     *)
(* address of a map object in the heap, 0 for a nil map.  FieldMapper,     *)
(* ByteOrder and the hook are named, as they are values that cannot be     *)
(* modified.                                                               *)
(***************************************************************************)
MapperOf(cfg, mappers, cache) ==
  [StrictTypes |-> cfg.StrictTypes, Tag |-> cfg.Tag, FieldMapper |-> cfg.FieldMapper,
   Mappers |-> mappers, Hooks |-> cfg.Hooks, ByteOrder |-> cfg.ByteOrder,
   DisableCache |-> cfg.DisableCache, cacheMap |-> cache]

\* The fields New() sets, the others having their zero value.
NewConfig ==
  [StrictTypes |-> FALSE, Tag |-> "map", FieldMapper |-> "nil", Hooks |-> "none",
   ByteOrder |-> "BigEndian", DisableCache |-> FALSE]

\* A Mapper whose caller has set every exported field.
CustomConfig ==
  [StrictTypes |-> TRUE, Tag |-> "json", FieldMapper |-> "ToLower", Hooks |-> "interfaces",
   ByteOrder |-> "LittleEndian", DisableCache |-> TRUE]

\* A Mapper for exact types only.
StrictConfig == [NewConfig EXCEPT !.StrictTypes = TRUE]

\* A Mapper that resolves every conversion anew.
UncachedConfig == [NewConfig EXCEPT !.DisableCache = TRUE]

Configs == {NewConfig, CustomConfig, StrictConfig, UncachedConfig}

\* make(map[typePair]*typeMapper, 0)
EmptyCache == << >>

\* The registry of New() with a provider of the caller for customType.
CustomMappers ==
  [t \in DOMAIN DefaultMappers \cup {customTy} |->
     IF t = customTy THEN "userProvider" ELSE DefaultMappers[t]]

Registries == {DefaultMappers, CustomMappers}

\* The objects New() allocates: the cache at address 1, the registry at 2.
New == MapperOf(NewConfig, 2, 1)
NewHeap == <<EmptyCache, DefaultMappers>>

NoOp == [on |-> "none", n |-> 0]

MaxOps == 4         \* operations run on the two Mappers

Init ==
  /\ StrictTypes \in BOOLEAN
  /\ DisableCache \in BOOLEAN
  /\ Hooks \in HookKinds
  /\ Mappers = DefaultMappers
  /\ cacheMu = 0
  /\ cacheMap = << >>
  /\ stack = [t \in Threads |-> << >>]
  /\ calls = [p \in AllPairs |-> NoCalls]
  /\ ret = [t \in Threads |-> [src |-> anyTy, dst |-> anyTy, fn |-> "nil", err |-> "nil", seq |-> 0]]
  /\ started = 0
  /\ mapSrc = Invalid
  /\ mapDst = Invalid
  /\ mapRes = Res("nil", Invalid, << >>)
  /\ mapPc = "idle"
  /\ FieldMapper = "nil"
  /\ ByteOrder = "BigEndian"
  /\ shared = FALSE
  /\ mp = [id \in {"m"} |-> New]
  /\ heap = NewHeap
  /\ acted = NoOp

\* Map / MapRefl is called with values that resolve to the pair p.
Call(t) ==
  /\ ~Running(t)
  /\ started < MaxCalls
  /\ \E p \in CallPairs : stack' = PushOn(stack, t, Frame(p))
  /\ started' = started + 1
  /\ UNCHANGED <<values, StrictTypes, DisableCache, Hooks, Mappers, cacheMu, cacheMap, calls, ret>>

\* mapperFor, line 889: m.cacheMu.Lock()
Lock_NoExclusion(t) ==
  /\ At(t, "lock")
  /\ cacheMu' = t
  /\ stack' = SetTop(t, [Top(t) EXCEPT !.pc = "lookup"])
  /\ UNCHANGED <<values, StrictTypes, DisableCache, Hooks, Mappers, cacheMap, calls, ret, started>>

Lock(t) ==
  /\ At(t, "lock")
  /\ cacheMu = 0
  /\ cacheMu' = t
  /\ stack' = SetTop(t, [Top(t) EXCEPT !.pc = "lookup"])
  /\ UNCHANGED <<values, StrictTypes, DisableCache, Hooks, Mappers, cacheMap, calls, ret, started>>

\* A variant of the lookup that resolves the pair whether or not the cache
\* holds its entry.
Lookup_Resolving(t) ==
  /\ At(t, "lookup")
  /\ stack' = SetTop(t, [Top(t) EXCEPT !.pc = "hook"])
  /\ UNCHANGED <<values, StrictTypes, DisableCache, Hooks, Mappers, cacheMu, cacheMap, calls, ret, started>>

\* mapperFor, lines 890-897: the cache lookup; a hit unlocks and returns the entry.
Lookup_IgnoreNil(t) ==
  /\ At(t, "lookup")
  /\ IF PairOf(Top(t)) \in DOMAIN cacheMap /\ cacheMap[PairOf(Top(t))].MapFunc # "nil"
       THEN /\ cacheMu' = 0
            /\ stack' = SetTop(t, [Top(t) EXCEPT !.pc = "mapRefl",
                                                 !.fn = cacheMap[PairOf(Top(t))].MapFunc])
       ELSE /\ cacheMu' = cacheMu
            /\ stack' = SetTop(t, [Top(t) EXCEPT !.pc = "hook"])
  /\ UNCHANGED <<values, StrictTypes, DisableCache, Hooks, Mappers, cacheMap, calls, ret, started>>

Lookup(t) ==
  /\ At(t, "lookup")
  /\ IF PairOf(Top(t)) \in DOMAIN cacheMap
       THEN /\ cacheMu' = 0
            /\ stack' = SetTop(t, [Top(t) EXCEPT !.pc = "mapRefl",
                                                 !.fn = cacheMap[PairOf(Top(t))].MapFunc])
       ELSE /\ cacheMu' = cacheMu
            /\ stack' = SetTop(t, [Top(t) EXCEPT !.pc = "hook"])
  /\ UNCHANGED <<values, StrictTypes, DisableCache, Hooks, Mappers, cacheMap, calls, ret, started>>

\* mapperFor, lines 906-911: the MapFuncHook is called, with the cache mutex
\* still held when caching is enabled.  A re-entrant hook converts InnerPair
\* on the same Mapper before it returns nil.
Hook(t) ==
  /\ At(t, "hook")
  /\ LET f == Top(t)
         p == PairOf(f)
         h == hookFunc(f.src, f.dst)
     IN  IF Hooks = "none"
           THEN /\ stack' = SetTop(t, [f EXCEPT !.pc = "rules"])
                /\ calls' = calls
           ELSE /\ calls' = [calls EXCEPT ![p].hook = @ + 1]
                /\ IF Hooks = "reentrant" /\ p # InnerPair
                     THEN stack' = PushOn(SetTop(t, [f EXCEPT !.pc = "hookRet"]), t, Frame(InnerPair))
                     ELSE IF h # "nil"
                       THEN stack' = SetTop(t, [f EXCEPT !.pc = "store", !.fn = h])
                       ELSE stack' = SetTop(t, [f EXCEPT !.pc = "rules"])
  /\ UNCHANGED <<values, StrictTypes, DisableCache, Hooks, Mappers, cacheMu, cacheMap, ret, started>>

\* The re-entrant hook's own conversion has returned; the hook returns nil.
HookReturn(t) ==
  /\ At(t, "hookRet")
  /\ stack' = SetTop(t, [Top(t) EXCEPT !.pc = "rules"])
  /\ UNCHANGED <<values, StrictTypes, DisableCache, Hooks, Mappers, cacheMu, cacheMap, calls, ret, started>>

\* mapperFor, lines 913-970.
Rules(t) ==
  /\ At(t, "rules")
  /\ LET f == Top(t)
         p == PairOf(f)
         r == resolveRules(f.src, f.dst)
     IN  /\ stack' = SetTop(t, [f EXCEPT !.pc = "store", !.fn = r.MapFunc])
         /\ calls' = [calls EXCEPT ![p].srcProv = @ + (IF r.srcProv THEN 1 ELSE 0),
                                   ![p].dstProv = @ + (IF r.dstProv THEN 1 ELSE 0),
                                   ![p].builtIn = @ + (IF r.builtIn THEN 1 ELSE 0)]
  /\ UNCHANGED <<values, StrictTypes, DisableCache, Hooks, Mappers, cacheMu, cacheMap, ret, started>>

\* A variant of the deferred function that starts a new map with the entry
\* it stores.
Store_Evicting(t) ==
  /\ At(t, "store")
  /\ LET f == Top(t)
         p == PairOf(f)
         tm == [SrcType |-> f.src, DstType |-> f.dst, MapFunc |-> f.fn]
     IN  IF DisableCache
           THEN UNCHANGED <<cacheMap, cacheMu>>
           ELSE /\ cacheMap' = [q \in {p} |-> tm]
                /\ cacheMu' = 0
  /\ stack' = SetTop(t, [Top(t) EXCEPT !.pc = "mapRefl"])
  /\ UNCHANGED <<values, StrictTypes, DisableCache, Hooks, Mappers, calls, ret, started>>

\* mapperFor, lines 894-897: the deferred function stores the typeMapper and unlocks.
Store(t) ==
  /\ At(t, "store")
  /\ LET f == Top(t)
         p == PairOf(f)
         tm == [SrcType |-> f.src, DstType |-> f.dst, MapFunc |-> f.fn]
     IN  IF DisableCache
           THEN UNCHANGED <<cacheMap, cacheMu>>
           ELSE /\ cacheMap' = [q \in DOMAIN cacheMap \cup {p} |->
                                  IF q = p THEN tm ELSE cacheMap[q]]
                /\ cacheMu' = 0
  /\ stack' = SetTop(t, [Top(t) EXCEPT !.pc = "mapRefl"])
  /\ UNCHANGED <<values, StrictTypes, DisableCache, Hooks, Mappers, calls, ret, started>>

Return(t, f, err) ==
  /\ stack' = Pop(t)
  /\ ret' = [ret EXCEPT ![t] = [src |-> f.src, dst |-> f.dst, fn |-> f.fn, err |-> err,
                                seq |-> @.seq + 1]]
  /\ calls' = [calls EXCEPT ![PairOf(f)].returned = @ + 1,
                            ![PairOf(f)].unsupported = @ + (IF f.fn = "nil" THEN 1 ELSE 0)]

\* typeMapper.mapRefl: a nil MapFunc is the invalid-mapping error, otherwise the
\* MapFunc runs.  mapSliceToSlice converts its elements through mapperFor.
MapRefl(t) ==
  /\ At(t, "mapRefl")
  /\ LET f == Top(t)
     IN  IF f.fn = "nil" THEN Return(t, f, "InvalidMappingErr")
         ELSE IF f.fn = "mapSliceToSlice"
           THEN /\ stack' = PushOn(SetTop(t, [f EXCEPT !.pc = "elems"]), t,
                                   Frame(<<Elem(f.src), Elem(f.dst)>>))
                /\ UNCHANGED <<ret, calls>>
           ELSE Return(t, f, "nil")
  /\ UNCHANGED <<values, StrictTypes, DisableCache, Hooks, Mappers, cacheMu, cacheMap, started>>

\* mapSliceToSlice, lines 545-547: the element's error is the routine's error.
Elems(t) ==
  /\ At(t, "elems")
  /\ Return(t, Top(t), ret[t].err)
  /\ UNCHANGED <<values, StrictTypes, DisableCache, Hooks, Mappers, cacheMu, cacheMap, started>>

Step(t) ==
  \/ Lock(t) \/ Lookup(t) \/ Hook(t) \/ HookReturn(t)
  \/ Rules(t) \/ Store(t) \/ MapRefl(t) \/ Elems(t)

Next == \E t \in Threads : Call(t) \/ Step(t)

Spec == Init /\ [][Next]_vars

\* Every thread that can take a step eventually takes one (the Go scheduler).
FairSpec == Spec /\ \A t \in Threads : WF_vars(Step(t))

(***************************************************************************)
(* Map calls on values: one call of Mapper.Map(src, dst) on a Mapper built *)
(* by New(), with src and dst drawn from the values below.                 *)
(***************************************************************************)
MaxElems == 2       \* length of the longest slice converted

\* Elements of the []any sources: "1", "x", 7 and the nil interface.
AnyElems ==
  << AnyV(StrV(<<"1">>)), AnyV(StrV(<<"x">>)), AnyV(IntV(intTy, 7)), NilV(anyTy) >>

AnySlices ==
  { SliceV(anyTy, [i \in 1..Len(f) |-> AnyElems[f[i]]]) :
      f \in UNION { [1..n -> 1..Len(AnyElems)] : n \in 0..MaxElems } }

\* The integer types converted and the range of each (the wide kinds hold
\* every modelled integer).
IntTypes == {intTy, int8Ty, int16Ty, uintTy, uint8Ty}

InRange(ty, n) ==
  CASE Kind(ty) = "Int8"   -> -128 <= n /\ n <= 127
    [] Kind(ty) = "Int16"  -> -32768 <= n /\ n <= 32767
    [] Kind(ty) = "Uint8"  -> 0 <= n /\ n <= 255
    [] Kind(ty) \in UintKinds -> 0 <= n
    [] OTHER               -> TRUE

\* Integers on both sides of the limits of the narrow kinds.
Boundaries ==
  {-32769, -32768, -129, -128, -1, 0, 127, 128, 255, 256, 32767, 32768}

IntSources ==
  UNION { { IntV(ty, n) : n \in { k \in Boundaries : InRange(ty, k) } } :
            ty \in IntTypes }

\* new(T) for each integer type, holding 9.
IntDestinations == { PtrV(IntV(ty, 9)) : ty \in IntTypes }

\* The source []int{1, 2, ...} of MaxElems + 1 elements, and the destination
\* []any{0, "0", 0.0}.
Counting == SliceV(intTy, [i \in 1..(MaxElems + 1) |-> IntV(intTy, i)])

Occupied ==
  SliceV(anyTy, << AnyV(IntV(intTy, 0)), AnyV(StrV(<<"0">>)),
                   AnyV(FloatV(float64Ty, 0)) >>)

\* Structs and string-keyed maps as sources, and as destinations with
\* fields and entries that hold values already.
entries(keys, vals) ==
  [k \in { keys[i] : i \in 1..Len(keys) } |->
     vals[CHOOSE i \in 1..Len(keys) : keys[i] = k]]

\* Values of the named scalar types, and new(T) for each of them.
NamedSources ==
  { Scalar(myBoolTy, TRUE), Scalar(myStringTy, <<"s">>), IntV(myIntTy, 5) }

NamedDestinations ==
  { PtrV(Scalar(myBoolTy, FALSE)), PtrV(Scalar(myStringTy, << >>)),
    PtrV(IntV(myIntTy, 0)) }

\* map[int]int{1: 1} and map[Key]int{"foo": 1}, and nil maps of the two
\* types.
KeyedSources ==
  { [t |-> MapOfKey(intTy, intTy), nil |-> FALSE,
     val |-> entries(<<"1">>, << IntV(intTy, 1) >>)],
    [t |-> MapOfKey(keyTy, intTy), nil |-> FALSE,
     val |-> entries(<<"foo">>, << IntV(intTy, 1) >>)] }

KeyedDestinations ==
  { PtrV(NilMap(MapOfKey(intTy, intTy))), PtrV(NilMap(MapOfKey(keyTy, intTy))) }

StructSources ==
  { StructV(flagTy, <<Scalar(myBoolTy, TRUE)>>),
    MapV(myBoolTy, entries(<<"On">>, << Scalar(myBoolTy, TRUE) >>)), StructV(srcTy, <<IntV(intTy, 1), StrV(<<"2">>), IntV(intTy, 3), IntV(intTy, 4)>>),
    StructV(dstTy, <<IntV(intTy, 1), IntV(intTy, 2), IntV(intTy, 3)>>),
    StructV(swapTy, <<IntV(intTy, 42), IntV(intTy, 1337)>>),
    StructV(plainTy, <<IntV(intTy, 5), StrV(<<"p">>)>>),
    MapV(anyTy, entries(<<"foo", "bar", "baz", "qaz">>,
                        << AnyV(IntV(intTy, 1)), AnyV(IntV(intTy, 2)),
                           AnyV(IntV(intTy, 3)), AnyV(IntV(intTy, 4)) >>)),
    MapV(anyTy, entries(<<"foo", "bar">>, << NilV(anyTy), AnyV(StrV(<<"x">>)) >>)),
    MapV(intTy, entries(<<"foo">>, << IntV(intTy, 1) >>)),
    MapV(intTy, entries(<<"Foo", "bar">>, << IntV(intTy, 5), IntV(intTy, 7) >>)) }

StructDestinations ==
  { PtrV(StructV(flagTy, <<Scalar(myBoolTy, FALSE)>>)),
    PtrV(NilMap(MapOf(myBoolTy))), PtrV(StructV(srcTy, <<IntV(intTy, 9), StrV(<<"z">>), IntV(intTy, 9), IntV(intTy, 9)>>)),
    PtrV(StructV(dstTy, <<IntV(intTy, 9), IntV(intTy, 9), IntV(intTy, 9)>>)),
    PtrV(StructV(swapTy, <<IntV(intTy, 9), IntV(intTy, 9)>>)),
    PtrV(StructV(plainTy, <<IntV(intTy, 9), StrV(<<"z">>)>>)),
    PtrV(NilMap(MapOf(anyTy))), PtrV(NilMap(MapOf(intTy))),
    PtrV(MapV(intTy, entries(<<"foo", "old">>, << IntV(intTy, 9), IntV(intTy, 9) >>))) }

Sources ==
  { Invalid,                                       \* nil
    NilV(PtrTo(intTy)),                            \* (*int)(nil)
    PtrV(NilV(PtrTo(intTy))),                      \* new(*int)
    PtrV(IntV(intTy, 3)),
    IntV(intTy, 1), IntV(intTy, 300),
    StrV(<<"1", "2">>), StrV(<<"x">>),
    StrV(<<"0", "x", "1", "0">>),                  \* "0x10"
    BoolV(TRUE),
    SliceV(intTy, <<IntV(intTy, 1)>>), Counting,
    SliceV(intTy, <<IntV(intTy, 1), IntV(intTy, 300)>>),
    SliceV(PtrTo(intTy), <<PtrV(IntV(intTy, 3)), NilV(PtrTo(intTy))>>) }
  \cup AnySlices \cup IntSources \cup StructSources \cup NamedSources
  \cup KeyedSources

\* new([]byte), new([1]byte), new([2]byte) and new([8]byte).
ByteDestinations ==
  { PtrV(NilV(SliceOf(uint8Ty))) }
  \cup { PtrV(ZeroOf(ArrayOf(n, uint8Ty))) : n \in {1, 2, 8} }

\* A destination slice of MaxElems elements, each 9.
Nines == SliceV(intTy, [i \in 1..MaxElems |-> IntV(intTy, 9)])

\* A destination slice of MaxElems + 1 strings, each "z".
Zeds == SliceV(stringTy, [i \in 1..(MaxElems + 1) |-> StrV(<<"z">>)])

Destinations ==
  { Invalid,                                       \* nil
    NilV(PtrTo(intTy)),                            \* (*int)(nil)
    IntV(intTy, 0), StrV(<< >>), TimeV(0),         \* values passed without a pointer
    SliceV(intTy, << >>),
    PtrV(IntV(intTy, 0)), PtrV(IntV(int8Ty, 0)), PtrV(StrV(<< >>)),
    PtrV(BoolV(FALSE)), PtrV(TimeV(0)),
    PtrV(NilV(PtrTo(intTy))),                      \* new(*int)
    PtrV(NilV(anyTy)), PtrV(AnyV(IntV(intTy, 4))),
    PtrV(AnyV(StrV(<<"0">>))), PtrV(AnyV(TimeV(0))), PtrV(Occupied),
    PtrV(NilV(SliceOf(intTy))), PtrV(Nines), PtrV(Zeds),
    PtrV(NilV(SliceOf(int8Ty))), PtrV(NilV(SliceOf(stringTy))),
    PtrV(NilV(SliceOf(anyTy))) }
  \cup IntDestinations \cup StructDestinations \cup NamedDestinations
  \cup ByteDestinations \cup KeyedDestinations

ValueInit ==
  /\ StrictTypes \in BOOLEAN
  /\ DisableCache = FALSE
  /\ Hooks = "none"
  /\ Mappers = DefaultMappers
  /\ cacheMu = 0
  /\ cacheMap = << >>
  /\ stack = [t \in Threads |-> << >>]
  /\ calls = [p \in AllPairs |-> NoCalls]
  /\ ret = [t \in Threads |-> [src |-> anyTy, dst |-> anyTy, fn |-> "nil", err |-> "nil", seq |-> 0]]
  /\ started = 0
  /\ mapSrc \in Sources
  /\ mapDst \in Destinations
  /\ mapRes = Res("nil", mapDst, << >>)
  /\ mapPc = "called"
  /\ FieldMapper \in {"nil", "ToLower"}
  /\ ByteOrder \in IF Kind(mapSrc.t) \in IntKinds \cup UintKinds /\ mapDst \in ByteDestinations
                   THEN {"BigEndian", "LittleEndian"}
                   ELSE {"BigEndian"}
  /\ shared = FALSE
  /\ mp = [id \in {"m"} |-> New]
  /\ heap = NewHeap
  /\ acted = NoOp

\* reflect.Value.Set of a slice or a map copies the slice header or the map
\* reference, not the elements: whether the routine fn leaves in dst the
\* storage of src.
Aliases(fn, src, dst, canSet) ==
  /\ Kind(src.t) \in {"Slice", "Map"} /\ ~src.nil
  /\ CASE fn = "mapDirect"       -> canSet
        [] fn = "mapAny"          -> canSet /\ dst.nil
        [] fn = "mapSliceToSlice" -> canSet /\ src.t = dst.t
        [] OTHER                  -> FALSE

\* What the routine Map chose did for the storage of the destination.
aliasing(srcVal, h) ==
  /\ IsValid(srcVal) /\ h.depth >= 0
  /\ Aliases(mapFuncFor(srcVal.t, Target(h.root, h.depth).t), srcVal,
             Target(h.root, h.depth), h.set)

\* Mapper.Map: reflect.ValueOf(dst) cannot be set.
Map ==
  /\ mapPc = "called"
  /\ mapRes' = MapReflValues(mapSrc, mapDst, FALSE)
  /\ shared' = aliasing(srcValue(mapSrc), dstValue(mapDst, FALSE))
  /\ mapPc' = "done"
  /\ UNCHANGED <<mapSrc, mapDst, mp, heap, acted, FieldMapper, ByteOrder, StrictTypes, DisableCache, Hooks, Mappers,
                 cacheMu, cacheMap, stack, calls, ret, started>>

\* A slice or a map with two elements that differ, and the assignment
\* v[a] = v[b] on it (a the first index or key with another value than b).
Writable(v) ==
  /\ IsValid(v) /\ Kind(v.t) \in {"Slice", "Map"} /\ ~v.nil
  /\ \E a, b \in DOMAIN v.val : v.val[a] # v.val[b]

Written(v) ==
  LET ab == CHOOSE ab \in (DOMAIN v.val) \X (DOMAIN v.val) : v.val[ab[1]] # v.val[ab[2]]
  IN  [v EXCEPT !.val[ab[1]] = v.val[ab[2]]]

\* The slice or map the destination holds after the call, and the
\* destination with that slice or map replaced.
Held(root, h) ==
  LET tgt == Target(root, h.depth)
  IN  IF Kind(tgt.t) = "Interface" THEN ElemV(tgt) ELSE tgt

Hold(root, h, v) ==
  Put(root, h.depth, IF Kind(Target(root, h.depth).t) = "Interface" THEN AnyV(v) ELSE v)

\* After the call the caller assigns to an element of the source.
WriteSrc ==
  /\ mapPc = "done" /\ mapRes.err = "nil"
  /\ Writable(mapSrc)
  /\ mapSrc' = Written(mapSrc)
  /\ mapRes' = IF shared
                 THEN [mapRes EXCEPT !.v = Hold(mapRes.v, dstValue(mapDst, FALSE), Written(mapSrc))]
                 ELSE mapRes
  /\ mapPc' = "written"
  /\ UNCHANGED <<mapDst, shared, mp, heap, acted, FieldMapper, ByteOrder, StrictTypes, DisableCache, Hooks, Mappers,
                 cacheMu, cacheMap, stack, calls, ret, started>>

\* After the call the caller assigns to an element of the destination.
WriteDst ==
  /\ mapPc = "done" /\ mapRes.err = "nil"
  /\ dstValue(mapDst, FALSE).depth >= 0
  /\ Writable(Held(mapRes.v, dstValue(mapDst, FALSE)))
  /\ mapRes' = [mapRes EXCEPT !.v = Hold(mapRes.v, dstValue(mapDst, FALSE),
                                         Written(Held(mapRes.v, dstValue(mapDst, FALSE))))]
  /\ mapSrc' = IF shared THEN Written(Held(mapRes.v, dstValue(mapDst, FALSE)))
                ELSE mapSrc
  /\ mapPc' = "written"
  /\ UNCHANGED <<mapDst, shared, mp, heap, acted, FieldMapper, ByteOrder, StrictTypes, DisableCache, Hooks, Mappers,
                 cacheMu, cacheMap, stack, calls, ret, started>>

ValueNext == Map \/ WriteSrc \/ WriteDst

ValueSpec == ValueInit /\ [][ValueNext]_vars


(***************************************************************************)
(* Mapper.Copy, and what the callers of two Mappers do with them: they     *)
(* assign to and delete from the exported Mappers registry, and they run   *)
(* conversions, which fill the cache.                                      *)
(***************************************************************************)
MapperIds == {"m", "cpy"}

\* The content of the map a field refers to; a nil map reads as an empty one.
Deref(h, addr) == IF addr = 0 THEN << >> ELSE h[addr]

\* The type pairs converted on the two Mappers.
CopyPairs == { <<intTy, stringTy>>, <<timeTy, intTy>>, <<customTy, stringTy>> }

\* mapperFor, lines 900-970, on the Mapper m whose registry holds reg: the
\* MapFunc of its hook, else of the rules.
mapFuncIn(m, reg, src, dst) ==
  LET hook         == CASE m.Hooks = "interfaces" -> MappingInterfaceHook(src, dst)
                        [] m.Hooks = "user"       -> userHook(src, dst)
                        [] OTHER                  -> "nil"
      sameTypes    == src = dst
      isSrcSimple  == isSimpleType(src)
      hasSrcMapper == ~isSrcSimple /\ src \in DOMAIN reg
      srcFn        == provider(reg[src], src, dst)
      isDstSimple  == IF sameTypes THEN isSrcSimple ELSE isSimpleType(dst)
      hasDstMapper == ~sameTypes /\ ~isDstSimple /\ dst \in DOMAIN reg
      dstFn        == provider(reg[dst], src, dst)
  IN  IF hook # "nil" THEN hook
      ELSE IF sameTypes /\ isSrcSimple THEN "mapDirect"
      ELSE IF dst = anyTy THEN "mapAny"
      ELSE IF hasSrcMapper /\ srcFn # "nil" THEN srcFn
      ELSE IF hasDstMapper /\ dstFn # "nil" THEN dstFn
      ELSE IF hasSrcMapper \/ hasDstMapper THEN "nil"
      ELSE builtInTypesMapper(src, dst)

others == <<StrictTypes, DisableCache, Hooks, Mappers, cacheMu, cacheMap, stack, calls,
            ret, started, mapSrc, mapDst, mapRes, mapPc, FieldMapper, ByteOrder, shared>>

Acted(id) == [on |-> id, n |-> acted.n + 1]

\* Mapper.Copy on the original.
Copy_Sharing ==
  /\ "cpy" \notin DOMAIN mp
  /\ acted.n < MaxOps
  /\ LET m   == mp["m"]
         cpy == [StrictTypes |-> FALSE, Tag |-> m.Tag, FieldMapper |-> m.FieldMapper,
                 Mappers |-> m.Mappers, Hooks |-> m.Hooks, ByteOrder |-> m.ByteOrder,
                 DisableCache |-> FALSE, cacheMap |-> m.cacheMap]
     IN  /\ mp' = [id \in MapperIds |-> IF id = "m" THEN m ELSE cpy]
         /\ heap' = heap
  /\ acted' = Acted("m")
  /\ UNCHANGED others

Copy ==
  /\ "cpy" \notin DOMAIN mp
  /\ acted.n < MaxOps
  /\ LET m       == mp["m"]
         cache   == Len(heap) + 1
         mappers == IF m.Mappers # 0 THEN Len(heap) + 2 ELSE 0
         cpy     == [StrictTypes |-> FALSE, Tag |-> m.Tag, FieldMapper |-> m.FieldMapper,
                     Mappers |-> mappers, Hooks |-> m.Hooks, ByteOrder |-> m.ByteOrder,
                     DisableCache |-> FALSE, cacheMap |-> cache]
     IN  /\ mp' = [id \in MapperIds |-> IF id = "m" THEN m ELSE cpy]
         /\ heap' = IF m.Mappers # 0
                      THEN heap \o <<EmptyCache, heap[m.Mappers]>>
                      ELSE Append(heap, EmptyCache)
  /\ acted' = Acted("m")
  /\ UNCHANGED others

\* A caller runs m.Mappers[ty] = prov on the Mapper id: it adds the provider
\* or replaces the one registered.  (Assigning into a nil map panics, which
\* the callers modelled do not do.)
SetMapper(id, ty, prov) ==
  /\ id \in DOMAIN mp
  /\ mp[id].Mappers # 0
  /\ acted.n < MaxOps
  /\ LET reg == heap[mp[id].Mappers]
     IN  heap' = [heap EXCEPT ![mp[id].Mappers] =
                    [t \in DOMAIN reg \cup {ty} |-> IF t = ty THEN prov ELSE reg[t]]]
  /\ acted' = Acted(id)
  /\ UNCHANGED <<mp, others>>

\* A caller runs delete(m.Mappers, ty) on the Mapper id.
DeleteMapper(id, ty) ==
  /\ id \in DOMAIN mp
  /\ acted.n < MaxOps
  /\ heap' = IF mp[id].Mappers = 0 THEN heap
             ELSE LET reg == heap[mp[id].Mappers]
                  IN  [heap EXCEPT ![mp[id].Mappers] = [t \in DOMAIN reg \ {ty} |-> reg[t]]]
  /\ acted' = Acted(id)
  /\ UNCHANGED <<mp, others>>

\* A conversion of the pair p runs on the Mapper id: mapperFor, lines 887-973.
Convert(id, p) ==
  /\ id \in DOMAIN mp
  /\ acted.n < MaxOps
  /\ LET m     == mp[id]
         cache == heap[m.cacheMap]
         tm    == [SrcType |-> p[1], DstType |-> p[2],
                   MapFunc |-> mapFuncIn(m, Deref(heap, m.Mappers), p[1], p[2])]
     IN  heap' = IF m.DisableCache \/ p \in DOMAIN cache THEN heap
                 ELSE [heap EXCEPT ![m.cacheMap] =
                         [q \in DOMAIN cache \cup {p} |-> IF q = p THEN tm ELSE cache[q]]]
  /\ acted' = Acted(id)
  /\ UNCHANGED <<mp, others>>

\* The original is a Mapper of one of the configurations, with a nil
\* registry or one of the registries, and an empty cache.
InitialHeaps == {<<EmptyCache>>} \cup {<<EmptyCache, reg>> : reg \in Registries}

CopyInit ==
  /\ StrictTypes = FALSE
  /\ DisableCache = FALSE
  /\ Hooks = "none"
  /\ Mappers = DefaultMappers
  /\ cacheMu = 0
  /\ cacheMap = << >>
  /\ stack = [t \in Threads |-> << >>]
  /\ calls = [p \in AllPairs |-> NoCalls]
  /\ ret = [t \in Threads |-> [src |-> anyTy, dst |-> anyTy, fn |-> "nil", err |-> "nil", seq |-> 0]]
  /\ started = 0
  /\ mapSrc = Invalid
  /\ mapDst = Invalid
  /\ mapRes = Res("nil", Invalid, << >>)
  /\ mapPc = "idle"
  /\ FieldMapper = "nil"
  /\ ByteOrder = "BigEndian"
  /\ shared = FALSE
  /\ heap \in InitialHeaps
  /\ \E cfg \in Configs : mp = [id \in {"m"} |-> MapperOf(cfg, IF Len(heap) = 2 THEN 2 ELSE 0, 1)]
  /\ acted = NoOp

CopyNext ==
  \/ Copy
  \/ \E id \in MapperIds, ty \in {timeTy, customTy} : SetMapper(id, ty, "userProvider")
  \/ \E id \in MapperIds : DeleteMapper(id, timeTy)
  \/ \E id \in MapperIds, p \in CopyPairs : Convert(id, p)

CopySpec == CopyInit /\ [][CopyNext]_vars


(***************************************************************************)
(* Properties of the dispatcher.                                           *)
(***************************************************************************)
Returned(t) == ret[t].seq > 0
RetPair(t)  == <<ret[t].src, ret[t].dst>>
ChainRuns(c) == c.hook + c.srcProv + c.dstProv + c.builtIn

\* The MapFunc the configured MapFuncHook function itself returns for a pair.
ConfiguredHook(src, dst) ==
  CASE Hooks = "interfaces" -> MappingInterfaceHook(src, dst)
    [] Hooks = "user"       -> userHook(src, dst)
    [] OTHER                -> "nil"

Registered(t) == ~isSimpleType(t) /\ t \in DOMAIN Mappers

\* C1: with the cache enabled, once a conversion of a type pair has failed
\* because the pair resolved to no routine, no later step runs the hook, a
\* provider or the built-in table for that pair again, and every later
\* conversion of the pair that returns fails with the invalid-mapping error.
C1_NoRoutineIsCached ==
  [][ \A p \in AllPairs :
        (~DisableCache /\ calls[p].unsupported > 0) =>
          /\ calls'[p].hook = calls[p].hook
          /\ calls'[p].srcProv = calls[p].srcProv
          /\ calls'[p].dstProv = calls[p].dstProv
          /\ calls'[p].builtIn = calls[p].builtIn
          /\ calls'[p].returned > calls[p].returned
               => calls'[p].unsupported > calls[p].unsupported ]_vars

C1_Witness ==
  /\ ~DisableCache
  /\ \E p \in AllPairs : calls[p].unsupported >= 2 /\ ChainRuns(calls[p]) >= 1

\* C2 (as stated): when the provider registered for the source type yields no
\* routine, the pair resolves to no routine and the provider registered for
\* the destination type is not consulted.
C2_SourceProviderTerminal ==
  \A t \in Threads :
    LET s == ret[t].src
        d == ret[t].dst
    IN  (Returned(t) /\ calls[RetPair(t)].srcProv > 0 /\ provider(Mappers[s], s, d) = "nil")
          => ret[t].fn = "nil" /\ calls[RetPair(t)].dstProv = 0

\* C2 (amended): when the provider registered for the source type yields no
\* routine, the built-in table is not tried; the provider registered for the
\* destination type, if the types differ and there is one, is consulted next
\* and the pair resolves to what it yields; with no such provider the pair
\* resolves to no routine.
C2_DestinationProviderNext ==
  \A t \in Threads :
    LET s == ret[t].src
        d == ret[t].dst
        c == calls[RetPair(t)]
    IN  (Returned(t) /\ c.srcProv > 0 /\ provider(Mappers[s], s, d) = "nil")
          => /\ c.builtIn = 0
             /\ IF s # d /\ Registered(d)
                  THEN c.dstProv > 0 /\ ret[t].fn = provider(Mappers[d], s, d)
                  ELSE c.dstProv = 0 /\ ret[t].fn = "nil"

C2_Witness ==
  \E t \in Threads :
    /\ Returned(t) /\ RetPair(t) = <<bigIntTy, bigRatTy>>
    /\ calls[RetPair(t)].srcProv > 0 /\ calls[RetPair(t)].dstProv > 0
    /\ ret[t].fn = "mapToBigRatViaBigFloat"

\* C3: when a provider is registered for the source or the destination type,
\* providers were consulted for the pair and each of them returned nil, the
\* built-in table is never called for the pair: it resolves to no routine and
\* the conversion returns the invalid-mapping error.
C3_DeclinedProvidersSkipBuiltIn ==
  \A t \in Threads :
    LET s == ret[t].src
        d == ret[t].dst
        c == calls[RetPair(t)]
    IN  ( /\ Returned(t)
          /\ s \in DOMAIN Mappers \/ d \in DOMAIN Mappers
          /\ c.srcProv > 0 \/ c.dstProv > 0
          /\ c.srcProv > 0 => provider(Mappers[s], s, d) = "nil"
          /\ c.dstProv > 0 => provider(Mappers[d], s, d) = "nil" )
          => c.builtIn = 0 /\ ret[t].fn = "nil" /\ ret[t].err = "InvalidMappingErr"

\* big.Int to a plain struct: the built-in table has a struct-to-struct rule.
C3_Witness ==
  \E t \in Threads :
    /\ Returned(t) /\ RetPair(t) = <<bigIntTy, s1Ty>>
    /\ calls[RetPair(t)].srcProv > 0
    /\ builtInTypesMapper(bigIntTy, s1Ty) # "nil"
    /\ ret[t].err = "InvalidMappingErr"

\* C4: a non-nil MapFunc returned by the configured MapFuncHook is the routine
\* of the pair and no provider or built-in rule is consulted; with no hook, or
\* a hook returning nil, the pair resolves by the later rules in their order:
\* direct copy for identical simple types, mapAny for an empty-interface
\* destination, the registered providers, the built-in table.
C4_HookFirst ==
  \A t \in Threads :
    LET s == ret[t].src
        d == ret[t].dst
        c == calls[RetPair(t)]
        h == ConfiguredHook(s, d)
        direct == s = d /\ isSimpleType(s)
    IN  Returned(t) =>
          IF h # "nil"
            THEN ret[t].fn = h /\ c.srcProv = 0 /\ c.dstProv = 0 /\ c.builtIn = 0
            ELSE /\ direct => ret[t].fn = "mapDirect"
                 /\ (~direct /\ d = anyTy) => ret[t].fn = "mapAny"
                 /\ (direct \/ d = anyTy) => c.srcProv = 0 /\ c.dstProv = 0 /\ c.builtIn = 0
                 /\ (~direct /\ d # anyTy /\ (Registered(s) \/ Registered(d)))
                       => c.srcProv + c.dstProv > 0
                 /\ (~direct /\ d # anyTy /\ ~Registered(s) /\ ~Registered(d))
                       => c.builtIn > 0 /\ ret[t].fn = builtInTypesMapper(s, d)

\* The hook's MapFunc replaces the direct copy of int to int.
C4_Witness ==
  \E t \in Threads :
    /\ Hooks = "user" /\ Returned(t) /\ RetPair(t) = <<intTy, intTy>>
    /\ ret[t].fn = "userMapFunc"

\* C5: with MappingInterfaceHooks, a source type implementing MapTo resolves
\* to the source's MapTo also when the destination type implements MapFrom;
\* MapFrom is the routine only when the source type does not implement MapTo.
C5_MapToBeforeMapFrom ==
  Hooks = "interfaces" =>
    \A t \in Threads :
      Returned(t) =>
        /\ (implMapTo(ret[t].src) /\ implMapFrom(ret[t].dst)) => ret[t].fn = "mapToInterface"
        /\ ret[t].fn = "mapFromInterface"
             => ~implMapTo(ret[t].src) /\ implMapFrom(ret[t].dst)
        /\ (~implMapTo(ret[t].src) /\ implMapFrom(ret[t].dst)) => ret[t].fn = "mapFromInterface"

C5_Witness ==
  \E t \in Threads :
    /\ Hooks = "interfaces" /\ Returned(t)
    /\ implMapTo(ret[t].src) /\ implMapFrom(ret[t].dst)
    /\ ret[t].fn = "mapToInterface"

\* C6: a thread that is about to read or write cacheMap holds cacheMu, so no
\* two threads are at a cache access together; every entry of the cache is
\* the typeMapper of its own key, and with caching enabled every pair whose
\* conversion has returned has its entry.
Accessing(t) == ~DisableCache /\ (At(t, "lookup") \/ At(t, "store"))

C6_CacheUnderMutex ==
  /\ \A t \in Threads : Accessing(t) => cacheMu = t
  /\ \A t, u \in Threads : (Accessing(t) /\ Accessing(u)) => t = u
  /\ \A p \in DOMAIN cacheMap : cacheMap[p].SrcType = p[1] /\ cacheMap[p].DstType = p[2]
  /\ \A p \in AllPairs : (~DisableCache /\ calls[p].returned > 0) => p \in DOMAIN cacheMap
  /\ DisableCache => cacheMap = << >>

\* Two threads resolve the same pair for the first time.
C6_Witness ==
  \E t, u \in Threads :
    /\ t # u /\ At(t, "store") /\ At(u, "lock") /\ ~DisableCache
    /\ PairOf(Top(t)) = PairOf(Top(u))
    /\ PairOf(Top(t)) \notin DOMAIN cacheMap

\* C7: every conversion that has been called eventually returns.
C7_EveryCallReturns ==
  \A t \in Threads : Running(t) ~> ~Running(t)

(***************************************************************************)
(* Map calls on values.                                                    *)
(***************************************************************************)
Done == mapPc = "done"

\* A destination that is not a writable location: nil, a nil pointer, or a
\* value passed without a pointer (no modelled destination is a map).
NotWritable(v) == ~IsValid(v) \/ Kind(v.t) # "Pointer" \/ v.nil

\* The slice a destination pointer leads to.
DstSlice(v) == v.val[1]

\* What the destination of the call holds when the same call is made with
\* only the first n elements of the source slice.
PrefixResult(n) ==
  LET src == srcValue(mapSrc)
  IN  DstSlice(MapReflValues([src EXCEPT !.val = SubSeq(src.val, 1, n)], mapDst, FALSE).v)

\* The elements of the destination slice when the traversal starts: its own,
\* then zero values up to the length of the source.
ElemBefore(k) ==
  IF k <= Len(DstSlice(mapDst).val) THEN DstSlice(mapDst).val[k]
  ELSE Zero(Elem(DstSlice(mapDst).t))

\* C8: a Map call with a usable source and a destination that is not a
\* writable location returns InvalidDstErr and invokes no conversion routine,
\* whatever the destination's type, a type with a registered provider included.
C8_UnwritableDstRejected ==
  (Done /\ IsValid(srcValue(mapSrc)) /\ NotWritable(mapDst))
    => (mapRes.err = "InvalidDstErr" /\ mapRes.inv = << >>)

\* C9: a Map call in which srcValue finds no usable source value, at the top
\* level or for an element of a traversed slice, returns InvalidSrcErr to its
\* caller as an error value.
C9_NilSourceIsInvalidSrcErr ==
  (Done /\ mapRes.nilSrc) => mapRes.err = "InvalidSrcErr"

\* C10: when an element fails during the traversal of a slice, the call
\* returns an error, no element after the failing one is converted, and the
\* elements before it keep their new values.
C10_TraversalStopsAtFirstFailure ==
  (Done /\ mapRes.failedAt > 0 /\ mapRes.inv[1] = "mapSliceToSlice") =>
    LET out == DstSlice(mapRes.v).val
        at  == mapRes.failedAt
    IN  /\ mapRes.err \notin {"nil", "panic"}
        /\ \A k \in (at + 1)..Len(out) : out[k] = ElemBefore(k)
        /\ \A k \in 1..(at - 1) : out[k] = PrefixResult(at - 1).val[k]

\* An integer passed to Map with a pointer to an integer.
IntToInt ==
  /\ Done
  /\ Kind(mapSrc.t) \in IntKinds \cup UintKinds
  /\ Kind(mapDst.t) = "Pointer" /\ ~mapDst.nil
  /\ Kind(mapDst.val[1].t) \in IntKinds \cup UintKinds

SliceToSlice ==
  /\ Done
  /\ Kind(mapSrc.t) = "Slice" /\ ~mapSrc.nil
  /\ Kind(mapDst.t) = "Pointer" /\ ~mapDst.nil
  /\ Kind(mapDst.val[1].t) = "Slice"

SrcLen == Len(mapSrc.val)
DstLen == Len(mapDst.val[1].val)
Longer == IF SrcLen > DstLen THEN SrcLen ELSE DstLen

\* What converting element i of the source into element i of the
\* destination alone leaves in it.
Converted(i) ==
  MapReflValues(mapSrc.val[i],
                PtrV(IF i <= DstLen THEN mapDst.val[1].val[i]
                     ELSE Zero(Elem(mapDst.val[1].t))), FALSE).v.val[1]

C13_ExtraElementsRemain ==
  SliceToSlice /\ SrcLen < DstLen =>
    LET out == mapRes.v.val[1].val
    IN  /\ Len(out) = DstLen
        /\ \A i \in (SrcLen + 1)..DstLen : out[i] = mapDst.val[1].val[i]

\* A value passed to Map with a pointer to an empty interface.
IntoAny ==
  /\ Done
  /\ IsValid(srcValue(mapSrc))
  /\ mapDst.t = PtrTo(anyTy) /\ ~mapDst.nil

\* C14: an empty interface that holds a value receives the source converted
\* to the type of that value; a nil one receives the source as it is.
C14_OccupantTypeKept ==
  IntoAny =>
    LET old == mapDst.val[1]
        new == mapRes.v.val[1]
    IN  IF old.nil THEN mapRes.err = "nil" /\ new = AnyV(srcValue(mapSrc))
        ELSE /\ mapRes.err # "panic"
             /\ mapRes.err = "nil" => ~new.nil /\ new.val[1].t = old.val[1].t

\* A value passed to Map with a pointer to a struct.
IntoStruct ==
  /\ Done
  /\ Kind(mapDst.t) = "Pointer" /\ ~mapDst.nil
  /\ Kind(mapDst.val[1].t) = "Struct" /\ NumField(mapDst.val[1].t) > 0

DstStruct == mapDst.val[1].t
OldField(i) == mapDst.val[1].val[i]
NewField(i) == mapRes.v.val[1].val[i]

\* Field i of the destination struct is one the routines do not pass over.
Reached(i) == \E k \in 1..Len(Mapped(DstStruct)) : Mapped(DstStruct)[k] = i

\* What converting the value v into field i of the destination alone
\* leaves in it.
FieldFrom(v, i) == MapReflValues(v, PtrV(OldField(i)), FALSE).v.val[1]

\* C15: a map converted into a struct writes the fields whose external name
\* is a key of the map; every other field holds the value it held before.
C15_MapToStructKeepsOtherFields ==
  IntoStruct /\ Kind(mapSrc.t) = "Map" =>
    \A i \in 1..NumField(DstStruct) :
      IF Reached(i) /\ ExtName(DstStruct, i) \in DOMAIN mapSrc.val
        THEN mapRes.err = "nil" /\ IsValid(srcValue(mapSrc.val[ExtName(DstStruct, i)]))
               => NewField(i) = FieldFrom(mapSrc.val[ExtName(DstStruct, i)], i)
        ELSE NewField(i) = OldField(i)

\* A map has been converted into a struct with a field it has a key for,
\* now changed, and a field it has no key for.
C15_Witness ==
  /\ IntoStruct /\ Kind(mapSrc.t) = "Map" /\ mapRes.err = "nil"
  /\ mapRes.inv[1] = "mapMapToStruct"
  /\ \E i, j \in 1..NumField(DstStruct) :
        /\ Reached(i) /\ ExtName(DstStruct, i) \in DOMAIN mapSrc.val
        /\ NewField(i) # OldField(i)
        /\ Reached(j) /\ ExtName(DstStruct, j) \notin DOMAIN mapSrc.val

\* A struct passed to Map with a pointer to a struct of another type.
StructToStruct ==
  /\ IntoStruct
  /\ Kind(mapSrc.t) = "Struct" /\ NumField(mapSrc.t) > 0
  /\ mapSrc.t # DstStruct

\* C16: a struct converted into a struct of another type sets to the zero
\* value every field of the destination that no field of the source
\* corresponds to by its external name.
C16_UnmatchedFieldsZeroed ==
  StructToStruct /\ mapRes.err = "nil" =>
    \A i \in 1..NumField(DstStruct) :
      Reached(i) /\ Named(mapSrc.t, ExtName(DstStruct, i)) = << >>
        => NewField(i) = Zero(Field(DstStruct, i).ty)

\* A struct passed to Map with a pointer to a map.
StructToMap ==
  /\ Done
  /\ Kind(mapSrc.t) = "Struct" /\ NumField(mapSrc.t) > 0
  /\ Kind(mapDst.t) = "Pointer" /\ ~mapDst.nil
  /\ Kind(mapDst.val[1].t) = "Map"

\* The external names of the fields of the source struct that are exported
\* and not tagged "-".
SrcNames == { ExtName(mapSrc.t, Mapped(mapSrc.t)[k]) : k \in 1..Len(Mapped(mapSrc.t)) }

\* What converting the value v into a new element of the destination map
\* gives.
EntryFrom(v) == MapReflValues(v, PtrV(Zero(Elem(mapDst.val[1].t))), FALSE).v.val[1]

\* C17: after a struct has been converted into a map the map has, besides
\* the entries it had, one entry for every exported field of the struct not
\* tagged "-", under the external name of the field (its tag, else
\* FieldMapper of its name, else its name), holding the converted value.
C17_StructToMapEntries ==
  StructToMap /\ mapRes.err = "nil" =>
    LET out == mapRes.v.val[1].val
    IN  /\ DOMAIN out = SrcNames \cup DOMAIN mapDst.val[1].val
        /\ \A k \in 1..Len(Mapped(mapSrc.t)) :
              out[ExtName(mapSrc.t, Mapped(mapSrc.t)[k])]
                = EntryFrom(mapSrc.val[Mapped(mapSrc.t)[k]])
        /\ \A f \in 1..NumField(mapSrc.t) :
              LET fld == Field(mapSrc.t, f)
              IN  fld.exported /\ fld.tag # <<"-">> =>
                    (IF fld.tag # << >> THEN fld.tag[1]
                     ELSE IF FieldMapper # "nil" THEN ToLower(fld.name)
                     ELSE fld.name) \in DOMAIN out

\* {Foo: 42 tagged "bar", Bar: 1337 tagged "foo"} has become
\* {"bar": 42, "foo": 1337}.
C17_Witness ==
  /\ StructToMap /\ mapRes.err = "nil"
  /\ mapSrc.t = swapTy /\ mapDst.val[1].nil
  /\ mapRes.v.val[1].val["bar"].val = 42
  /\ mapRes.v.val[1].val["foo"].val = 1337
  /\ mapRes.inv[1] = "mapStructToMap"

\* The fields of a struct type that are tagged "-".
Dashed(ty) == { i \in 1..NumField(ty) : Field(ty, i).tag = <<"-">> }

\* C18: a field tagged "-" is left out of every conversion between structs
\* and maps: as a field of the destination struct it holds after the call
\* the value it held before, also when source and destination are of the
\* same struct type, and as a field of the source struct it gives the
\* destination map no entry.
C18_DashedFieldsExcluded ==
  /\ IntoStruct /\ Kind(mapSrc.t) \in {"Map", "Struct"} =>
        \A i \in Dashed(DstStruct) : NewField(i) = OldField(i)
  /\ StructToMap =>
        \A i \in Dashed(mapSrc.t) :
          \A key \in {Field(mapSrc.t, i).name, ToLower(Field(mapSrc.t, i).name), "-", ""} :
            key \in DOMAIN mapRes.v.val[1].val => key \in DOMAIN mapDst.val[1].val

\* A struct has been converted into a struct of its own type: the field
\* tagged "-" differs in the source and has kept its value, another field
\* has changed.
C18_Witness ==
  /\ IntoStruct /\ mapSrc.t = DstStruct /\ mapRes.err = "nil"
  /\ mapRes.inv[1] = "mapStructsOfSameType"
  /\ \E i \in Dashed(DstStruct) :
        mapSrc.val[i] # OldField(i) /\ NewField(i) = OldField(i)
  /\ \E j \in 1..NumField(DstStruct) : NewField(j) # OldField(j)

ScalarKinds == {"Bool", "String"} \cup IntKinds \cup UintKinds \cup FloatKinds

\* A scalar passed to Map with a pointer to a scalar.
ScalarToScalar ==
  /\ Done
  /\ Kind(mapSrc.t) \in ScalarKinds
  /\ Kind(mapDst.t) = "Pointer" /\ ~mapDst.nil
  /\ Kind(mapDst.val[1].t) \in ScalarKinds

\* The declared types of a source and of the destination element it goes to
\* are identical for every field or entry the conversion reaches.
SameFieldTypes ==
  CASE Kind(mapSrc.t) = "Struct" /\ Kind(mapDst.val[1].t) = "Struct" ->
         IF mapSrc.t = DstStruct THEN TRUE
         ELSE \A k \in 1..Len(Matched(mapSrc.t, DstStruct)) :
                LET i == Matched(mapSrc.t, DstStruct)[k]
                IN  valMap(mapSrc, ExtName(DstStruct, i)).t = Field(DstStruct, i).ty
    [] Kind(mapSrc.t) = "Struct" /\ Kind(mapDst.val[1].t) = "Map" ->
         \A k \in 1..Len(Mapped(mapSrc.t)) :
           Field(mapSrc.t, Mapped(mapSrc.t)[k]).ty = Elem(mapDst.val[1].t)
    [] Kind(mapSrc.t) = "Map" /\ Kind(mapDst.val[1].t) = "Struct" ->
         \A k \in 1..Len(Mapped(DstStruct)) :
           ExtName(DstStruct, Mapped(DstStruct)[k]) \in DOMAIN mapSrc.val
             => Field(DstStruct, Mapped(DstStruct)[k]).ty = Elem(mapSrc.t)
    [] OTHER -> FALSE

\* A struct or a map passed to Map with a pointer to a struct or a map, one
\* of the two a struct.
Structural ==
  /\ Done
  /\ Kind(mapSrc.t) \in {"Struct", "Map"} /\ ~mapSrc.nil
  /\ Kind(mapSrc.t) = "Struct" => NumField(mapSrc.t) > 0
  /\ Kind(mapDst.t) = "Pointer" /\ ~mapDst.nil
  /\ Kind(mapDst.val[1].t) \in {"Struct", "Map"}
  /\ Kind(mapDst.val[1].t) = "Struct" => NumField(mapDst.val[1].t) > 0

\* C19: with StrictTypes a bool is refused by an integer with the strict
\* mapping error, while conversions from struct to struct, from struct to
\* map and from map to struct whose matching fields have identical types
\* succeed.
C19_StrictKeepsStructural ==
  StrictTypes =>
    /\ ScalarToScalar /\ Kind(mapSrc.t) = "Bool" /\ Kind(mapDst.val[1].t) \in IntKinds
          => mapRes.err = "StrictMappingErr" /\ mapRes.v = mapDst
    /\ Structural /\ SameFieldTypes => mapRes.err = "nil"

\* C20: with StrictTypes a scalar is stored when its type is the type of
\* the destination, named types included, and is refused with the strict
\* mapping error when the two types differ.
C20_StrictSameTypeSucceeds ==
  StrictTypes /\ ScalarToScalar =>
    IF mapSrc.t = mapDst.val[1].t
      THEN mapRes.err = "nil" /\ mapRes.v.val[1] = mapSrc
      ELSE mapRes.err = "StrictMappingErr" /\ mapRes.v = mapDst

\* C21: with StrictTypes a valid source passed with a pointer to an empty
\* interface is stored in the interface as it is, whether the interface is
\* nil or holds a value already.
C21_AnyAcceptsUnderStrict ==
  StrictTypes /\ IntoAny =>
    /\ mapRes.err = "nil"
    /\ mapRes.v.val[1] = AnyV(srcValue(mapSrc))

\* An integer passed to Map with a pointer to a byte slice or a byte array.
NumberToBytes ==
  /\ Done
  /\ Kind(mapSrc.t) \in IntKinds \cup UintKinds
  /\ mapDst \in ByteDestinations

Narrow == Width(mapSrc.t) < 4

\* The number a byte sequence denotes in the byte order of the Mapper.
RECURSIVE Denoted(_)
Denoted(bs) ==
  IF bs = << >> THEN 0
  ELSE IF ByteOrder = "BigEndian"
    THEN 256 * Denoted(SubSeq(bs, 1, Len(bs) - 1)) + bs[Len(bs)].val
    ELSE bs[1].val + 256 * Denoted(Tail(bs))

\* C22 as stated: an integer of a type narrower than 32 bits is refused by
\* a byte sequence, and the destination holds no bytes of it.
C22_NarrowSourcesRejected ==
  NumberToBytes /\ Narrow =>
    mapRes.err # "nil" /\ mapRes.v.val[1].val = mapDst.val[1].val

\* C22: without StrictTypes an integer of a narrow type is written to a byte
\* slice as the 1 or 2 bytes of its type in the byte order of the Mapper,
\* and to a byte array of exactly that length; an array of another length
\* is refused.  With StrictTypes the conversion is refused.  A refused
\* conversion leaves the bytes of the destination as they were.
C22_NarrowSourcesEncoded ==
  NumberToBytes /\ Narrow =>
    LET old == mapDst.val[1]
        new == mapRes.v.val[1]
        w   == Width(mapSrc.t)
    IN  IF StrictTypes THEN mapRes.err = "StrictMappingErr" /\ new.val = old.val
        ELSE IF Kind(old.t) = "Array" /\ Len(old.val) # w
          THEN /\ mapRes.err = "InvalidMappingErr"
               /\ mapRes.reason = "invalid array length"
               /\ new.val = old.val
        ELSE /\ mapRes.err = "nil"
             /\ new.t = old.t /\ ~new.nil
             /\ Len(new.val) = w
             /\ Denoted(new.val) = mapSrc.val % (256 ^ w)

C22_Witness ==
  /\ NumberToBytes /\ Narrow /\ ~StrictTypes
  /\ Kind(mapSrc.t) = "Int16" /\ mapSrc.val = 32767
  /\ ByteOrder = "BigEndian"
  /\ mapDst.val[1].t = SliceOf(uint8Ty)
  /\ mapRes.err = "nil"
  /\ mapRes.v.val[1].val = <<IntV(uint8Ty, 127), IntV(uint8Ty, 255)>>

\* A string passed to Map with a pointer to an integer, without StrictTypes.
StringToInt ==
  /\ Done /\ ~StrictTypes
  /\ Kind(mapSrc.t) = "String"
  /\ Kind(mapDst.t) = "Pointer" /\ ~mapDst.nil
  /\ Kind(mapDst.val[1].t) \in IntKinds \cup UintKinds

\* The integer literals over the modelled characters: decimal digits, or
\* 0x and hexadecimal digits; Literal(s).n is the integer s denotes.
RECURSIVE HexDigits(_, _)
HexDigits(s, acc) ==
  IF s = << >> THEN acc ELSE HexDigits(Tail(s), acc * 16 + DigitOf(Head(s)))

Literal(s) ==
  IF Len(s) > 2 /\ SubSeq(s, 1, 2) = <<"0", "x">>
       /\ \A i \in 3..Len(s) : IsDigit(s[i])
    THEN [ok |-> TRUE, n |-> HexDigits(SubSeq(s, 3, Len(s)), 0)]
  ELSE IF s # << >> /\ \A i \in 1..Len(s) : IsDigit(s[i])
    THEN [ok |-> TRUE, n |-> ParseDigits(s, 0)]
  ELSE [ok |-> FALSE, n |-> 0]

\* C23: a string that is an integer literal, hexadecimal ones such as
\* "0x10" included, is converted to the integer it denotes (when the
\* destination holds it); any other string is refused with
\* InvalidMappingErr.
C23_IntegerLiteralsParse ==
  StringToInt =>
    LET lit == Literal(mapSrc.val)
        ty  == mapDst.val[1].t
    IN  IF ~lit.ok THEN mapRes.err = "InvalidMappingErr"
        ELSE ~(OverflowInt(ty, lit.n) \/ OverflowUint(ty, lit.n)) =>
               /\ mapRes.err = "nil"
               /\ mapRes.v.val[1] = IntV(ty, lit.n)

\* C25: no step removes or replaces an entry of the cache, and a lookup
\* that finds the entry of its pair continues with the MapFunc of that
\* entry.
C25_CacheEntriesAreKept ==
  [][ /\ \A p \in DOMAIN cacheMap :
           p \in DOMAIN cacheMap' /\ cacheMap'[p] = cacheMap[p]
      /\ \A t \in Threads :
           (At(t, "lookup") /\ PairOf(Top(t)) \in DOMAIN cacheMap
              /\ stack'[t] # stack[t])
             => /\ stack'[t][Len(stack'[t])].pc = "mapRefl"
                /\ stack'[t][Len(stack'[t])].fn = cacheMap[PairOf(Top(t))].MapFunc ]_vars

\* A pair was converted twice, the second time from its entry, while the
\* cache holds the entry of another pair too.
C25_Witness ==
  \E p \in DOMAIN cacheMap :
    /\ calls[p].returned >= 2
    /\ ChainRuns(calls[p]) = 1
    /\ \E q \in DOMAIN cacheMap : q # p

\* A thread is between the cache lookup and the store of mapperFor.
Resolving(t) ==
  \E i \in 1..Len(stack[t]) : stack[t][i].pc \in {"hook", "hookRet", "rules", "store"}

\* C26: with the cache enabled the MapFuncHook, the provider of the source
\* type, the provider of the destination type and the built-in table are
\* each called at most once for a type pair, and at most one thread is
\* resolving a pair at a time: the others wait for cacheMu.
C26_ChainRunsOncePerPair ==
  ~DisableCache =>
    /\ \A p \in AllPairs :
         /\ calls[p].hook <= 1
         /\ calls[p].srcProv <= 1
         /\ calls[p].dstProv <= 1
         /\ calls[p].builtIn <= 1
    /\ \A t, u \in Threads : (Resolving(t) /\ Resolving(u)) => t = u
    /\ \A t \in Threads : Resolving(t) => cacheMu = t

\* Two threads have converted the same pair and the built-in table was
\* asked once.
C26_Witness ==
  /\ ~DisableCache
  /\ \E t, u \in Threads :
       /\ t # u /\ Returned(t) /\ Returned(u)
       /\ RetPair(t) = RetPair(u)
       /\ calls[RetPair(t)].builtIn = 1

\* C27: a call that returns InvalidSrcErr leaves the destination as it was:
\* no nil pointer, map or slice reachable from it has been allocated.
C27_InvalidSrcLeavesDst ==
  (Done /\ mapRes.err = "InvalidSrcErr") => mapRes.v = mapDst

\* A slice or a map was converted into a destination of its own type.
IntoSameType ==
  /\ mapPc = "done" /\ mapRes.err = "nil"
  /\ Kind(mapSrc.t) \in {"Slice", "Map"}
  /\ Kind(mapDst.t) = "Pointer" /\ ~mapDst.nil
  /\ mapDst.val[1].t = mapSrc.t

\* C28: after a slice or a map has been converted into a destination of its
\* own type, an assignment to an element of the source does not change the
\* destination, and an assignment to an element of the destination does not
\* change the source.
C28_NoSharedStorage ==
  [][ (IntoSameType /\ mapPc' = "written") =>
        /\ mapSrc' # mapSrc => mapRes'.v = mapRes.v
        /\ mapRes'.v # mapRes.v => mapSrc' = mapSrc ]_vars

\* A struct and a map whose key type is not string, one passed to Map with
\* a pointer to the other.
OtherKeys ==
  /\ Done
  /\ Kind(mapDst.t) = "Pointer" /\ ~mapDst.nil
  /\ \/ /\ Kind(mapSrc.t) = "Map" /\ KeyOf(mapSrc.t) # stringTy
        /\ Kind(mapDst.val[1].t) = "Struct" /\ NumField(mapDst.val[1].t) > 0
     \/ /\ Kind(mapSrc.t) = "Struct" /\ NumField(mapSrc.t) > 0
        /\ Kind(mapDst.val[1].t) = "Map" /\ KeyOf(mapDst.val[1].t) # stringTy

\* C29: a conversion between a struct and a map whose key type is not
\* exactly string returns an error and does not panic.
C29_OtherKeysRefused ==
  OtherKeys => mapRes.err \notin {"nil", "panic"}


(***************************************************************************)
(* Properties of Mapper.Copy.                                              *)
(***************************************************************************)
\* What a Mapper is configured with: its exported fields, the registry by
\* its content.
Config(ms, h, id) ==
  [StrictTypes |-> ms[id].StrictTypes, Tag |-> ms[id].Tag, FieldMapper |-> ms[id].FieldMapper,
   ByteOrder |-> ms[id].ByteOrder, Hooks |-> ms[id].Hooks, DisableCache |-> ms[id].DisableCache,
   Mappers |-> Deref(h, ms[id].Mappers)]

Copied == "cpy" \notin DOMAIN mp /\ "cpy" \in DOMAIN mp'

\* C24: the Mapper Copy returns has the configuration of the original: its
\* StrictTypes, Tag, FieldMapper, ByteOrder, Hooks and DisableCache are those
\* of the original and its registry holds the same provider for every type.
C24_CopyKeepsConfiguration ==
  [][Copied => Config(mp', heap', "cpy") = Config(mp, heap, "m")]_vars

\* What a Mapper is, its two maps by their content.
View(ms, h, id) ==
  [fields |-> ms[id], mappers |-> Deref(h, ms[id].Mappers), cache |-> h[ms[id].cacheMap]]

\* C30: the copy and the original are independent: an operation on one of
\* them (a provider added, replaced or deleted in its registry, its cache
\* filled by a conversion) leaves the other one, its registry and its cache
\* as they were.
C30_CopyIsIndependent ==
  [][\A id \in DOMAIN mp : acted'.on # id => View(mp', heap', id) = View(mp, heap, id)]_vars

\* Both Mappers were changed after the copy was made: their registries and
\* their caches differ.
C30_Witness ==
  /\ "cpy" \in DOMAIN mp /\ acted.on = "cpy"
  /\ mp["m"].Mappers # 0
  /\ Deref(heap, mp["cpy"].Mappers) # Deref(heap, mp["m"].Mappers)
  /\ DOMAIN heap[mp["cpy"].cacheMap] # {}
  /\ DOMAIN heap[mp["m"].cacheMap] # {}
  /\ DOMAIN heap[mp["cpy"].cacheMap] # DOMAIN heap[mp["m"].cacheMap]

====
